---- MODULE Spec2Model ----
(***************************************************************************)
(* Model of the conversation message-processing engine of libredesk       *)
(* (package conversation: message.go and conversation.go).                 *)
(*                                                                         *)
(* Three specifications share the module:                                  *)
(*   Spec        outbound dispatch: the periodic scanner of Run, the       *)
(*               MessageSenderWorker pool, sendOutgoingMessage, the        *)
(*               in-flight tracker and MarkMessageAsPending;               *)
(*   SpecQueue   the bounded ingestion queue: EnqueueIncoming, Close and   *)
(*               the IncomingMessageWorker pool;                           *)
(*   SpecIngest  processIncomingMessage run by concurrent ingestion        *)
(*               workers against the conversation/message store.           *)
(***************************************************************************)
EXTENDS Integers, Sequences, FiniteSets, TLC

(***************************************************************************)
(* Bounds of the model.                                                    *)
(***************************************************************************)
\* Outgoing messages that QueueReply may create.
NumMessages == 1
\* Size of the MessageSenderWorker pool (Run's outgoingQWorkers).
OutgoingQWorkers == 2
\* Opts.OutgoingMessageQueueSize: capacity of outgoingMessageQueue.
OutgoingMessageQueueSize == 1
\* Calls of handleRetryMessage / MarkMessageAsPending in one run.
MaxRetries == 1
\* Status writes the store may reject in one run.
MaxStoreFailures == 1
\* Opts.IncomingMessageQueueSize: capacity of incomingMessageQueue.
IncomingMessageQueueSize == 1
\* Size of the IncomingMessageWorker pool (Run's incomingQWorkers).
IncomingQWorkers == 2
\* Concurrent callers of EnqueueIncoming (the inboxes' receive loops).
NumProducers == 2
\* Calls of EnqueueIncoming in one run.
MaxEnqueue == 3
\* Envelopes the ingestion workers take in one run.
MaxDeliveries == 2
\* Source ids (Message-IDs) in play; the first belongs to a persisted message.
NumSourceIDs == 2
\* Envelopes the single worker of SpecMatch takes in one run; its store starts
\* with one conversation more, so this stays below MaxDeliveries.
MaxMatchDeliveries == 1
\* Messages a conversation holds before the reply, and messages inserted after it.
MaxPrior == 21
MaxLater == 2
\* Entries of message.Media a call of InsertMessage is given.
MaxMedia == 2
MaxStatusCalls == 3
\* Agents that reply on the conversation, and calls of QueueReply in a run.
NumAgents == 2
MaxReplies == 3
\* Ticks of the trash manager's ticker in a run.
MaxCycles == 2
\* Executions of processIncomingMessage that get past the insert in a run.
MaxPosts == 3
NumInboxes == 2
MaxReloads == 2
\* The number of source ids sendOutgoingMessage asks for.
ReferencesLimit == 20

Messages == 1..NumMessages
SenderWorkers == 1..OutgoingQWorkers
IncomingWorkers == 1..IncomingQWorkers
Producers == 1..NumProducers

\* The two ingestion workers whose executions of processIncomingMessage overlap.
Processors == {"w1", "w2"}
SourceIDs == 1..NumSourceIDs
NoSource == 0
\* Conversation ids come from a sequence; one conversation exists at the start
\* and every delivery can create one more.
MaxConversations == 1 + MaxDeliveries
ConvIds == 1..MaxConversations
NoConversation == 0
\* Contact addresses; "" is the Email of a zero-value models.Conversation.
Emails == {"a@x", "A@x", "b@x"}
NoEnvelope == [src |-> NoSource, email |-> "", uuid |-> NoConversation]
\* models.IncomingMessage as far as the matcher reads it at once: the source
\* id, the sender's address and ConversationUUIDFromReplyTo (none, or the
\* UUID of the conversation that exists at the start).
Envelopes == [src : SourceIDs, email : Emails, uuid : {NoConversation, 1}]
\* What the subject's reference number can name: nothing, or a conversation.
RefNums == {NoConversation} \cup ConvIds
\* What In-Reply-To/References can name: nothing, or a source id.
InReplyTos == {NoSource} \cup SourceIDs
\* The two together, for an envelope whose subject and headers are known from
\* the start.
Hints == [ref : RefNums, irt : InReplyTos]
NoHints == [ref |-> NoConversation, irt |-> NoSource]

NoMessage == 0
\* Envelopes are named by the order in which EnqueueIncoming accepted them.
EnvelopeIDs == 1..MaxEnqueue
NoEnvelopeID == 0

\* models.MessageStatus*; "None" is a row that has not been inserted yet.
MessageStatusPending == "Pending"
MessageStatusSent == "Sent"
MessageStatusFailed == "Failed"
MessageStatusReceived == "Received"
MessageStatuses == {"None", MessageStatusPending, MessageStatusSent, MessageStatusFailed}

\* Who wrote an outgoing message: a human agent or the system user.
SenderKinds == {"agent", "system"}

\* Where one execution of sendOutgoingMessage can stop: the inbox lookup, the
\* template render, the attachment reconstitution, the adapter's Send, or none.
SendOutcomes == {"inboxErr", "renderErr", "attachErr", "sendErr", "ok"}

\* How the bookkeeping after a successful Send can end: GetSystemUser fails,
\* GetConversation fails, or it runs to the end.
PostOutcomes == {"systemUserErr", "conversationErr", "ok"}

VARIABLES
  \* ---- the store (outbound part) ----
  msgStatus,                   \* conversation_messages.status, by message id
  msgSender,                   \* "agent" | "system" | "none", by message id
  msgPrivate,                  \* conversation_messages.private, by message id
  firstReplyAt,                \* conversations.first_reply_at (0: unset)
  lastReplyAt,                 \* conversations.last_reply_at (0: unset)
  waitingSince,                \* conversations.waiting_since is set
  slaEvent,                    \* latest next-response SLA event: none | pending | met
  outgoingHooks,               \* automation evaluations for EventConversationMessageOutgoing
  now,                         \* time.Now(), a logical clock
  \* ---- Manager ----
  outgoingProcessingMessages,  \* the in-flight tracker (sync.Map keys)
  outgoingMessageQueue,        \* buffered channel of messages
  \* ---- Run, the scanner loop ----
  runPc,                       \* wait | query | store | push
  runMessageIDs,               \* messageIDs read from the tracker at the tick
  runPending,                  \* pendingMessages still to be pushed
  \* ---- MessageSenderWorker goroutines ----
  senderPc,                    \* recv | send | post | defer | exited
  senderMsg,                   \* the message a worker took
  \* ---- history, read only by the properties ----
  wasSent,                     \* the message's status has been Sent
  authorized,                  \* QueueReply or MarkMessageAsPending asked for a dispatch not yet started
  adapterSends,                \* successful adapter Sends, by message id
  retries,                     \* MarkMessageAsPending calls so far
  storeFailures                \* rejected status writes so far

storeVars == <<msgStatus, msgSender, msgPrivate, firstReplyAt, lastReplyAt, waitingSince, slaEvent, outgoingHooks, now>>
runVars == <<runPc, runMessageIDs, runPending>>
senderVars == <<senderPc, senderMsg>>
historyVars == <<wasSent, authorized, adapterSends, retries, storeFailures>>
outVars == <<storeVars, outgoingProcessingMessages, outgoingMessageQueue, runVars, senderVars, historyVars>>

VARIABLES
  \* ---- Manager: ingestion queue and shutdown ----
  incomingMessageQueue,        \* buffered channel of envelopes
  closed,                      \* m.closed; Close closes both channels right after setting it
  closePc,                     \* Close: idle (not called) | wait (in wg.Wait, holding closedMu) | done
  ctxDone,                     \* the context given to Run is cancelled
  producerPc,                  \* callers of EnqueueIncoming: idle | lock (at closedMu.Lock)
  incomingPc,                  \* IncomingMessageWorker goroutines: recv | process | exited
  \* ---- history, read only by the properties ----
  enqAccepted,                 \* EnqueueIncoming calls that returned nil
  enqFull,                     \* calls that returned "incoming message queue is full"
  enqClosed,                   \* calls that returned "incoming message queue is closed"
  dequeued,                    \* envelopes the workers have received
  incomingMsg,                 \* the envelope an ingestion worker took (0: none)
  processedCount,              \* runs of processIncomingMessage, by envelope
  incomingLogged               \* the worker's last run returned an error, which it logged

workVars == <<incomingMsg, processedCount, incomingLogged>>
queueVars == <<incomingMessageQueue, closed, closePc, ctxDone, producerPc, incomingPc,
               enqAccepted, enqFull, enqClosed, dequeued, workVars>>

VARIABLES
  \* ---- the store (inbound part) ----
  convContact,                 \* address of the conversation's contact ("": no such row)
  convStatus,                  \* conversations.status ("None": no such row)
  srcConv,                     \* conversation of the message with a source id (0: no such message)
  srcStatus,                   \* status of the message with a source id ("None": no such message)
  statusActivities,            \* status-change activities recorded on a conversation
  nextConvID,                  \* next value of the conversations id sequence
  \* ---- executions of processIncomingMessage ----
  procPc,                      \* recv | contact | dedup | plus | ref | find | create | upload | insert | post
  procEnv,                     \* the envelope (in)
  procHints,                   \* its reference number and In-Reply-To, when fixed at the call
  procConv,                    \* in.Message.ConversationID
  procNew,                     \* isNewConversation
  procResult,                  \* where the last execution returned
  deliveries                   \* envelopes taken so far

ingestStore == <<convContact, convStatus, srcConv, srcStatus, statusActivities, nextConvID>>
procVars == <<procPc, procEnv, procHints, procConv, procNew, procResult, deliveries>>
ingestVars == <<ingestStore, procVars>>

VARIABLES
  \* ---- the threading headers of one outgoing message ----
  threadConv,                  \* source ids of the conversation's messages, oldest first
  threadSelf,                  \* message.SourceID (0: no message)
  threadPc,                    \* idle | pending | sent
  threadLogged,                \* the error of GetMessageSourceIDs was logged
  References,                  \* message.References
  InReplyTo                    \* message.InReplyTo (0: unset)

threadVars == <<threadConv, threadSelf, threadPc, threadLogged, References, InReplyTo>>

VARIABLES
  \* ---- one call of InsertMessage ----
  insPc,                       \* idle | row | attach | participant | lastMessage | broadcast | refetch | webhook | done
  insMedia,                    \* entries of message.Media still to attach
  insRow,                      \* the row is in conversation_messages
  insRan,                      \* the sub-steps that ran
  insFailed,                   \* the sub-steps that failed
  insResult                    \* none | nil | error

insertVars == <<insPc, insMedia, insRow, insRan, insFailed, insResult>>

VARIABLES
  \* ---- calls of UpdateConversationStatus on one conversation ----
  conversationStatus,          \* conversations.status
  snoozedUntil,                \* conversations.snoozed_until (0: none)
  resolvedAt,                  \* conversations.resolved_at (0: none)
  activities,                  \* status-change activities recorded
  clock,                       \* time.Now()
  ucsPc,                       \* idle | validate | fetch | exec | refetch | record
  ucsStatus,                   \* the argument status
  ucsSnoozeDur,                \* the argument snoozeDur
  ucsSnoozeUntil,              \* the local snoozeUntil (0: zero time)
  ucsBefore,                   \* conversationBeforeChange: status and resolved_at
  ucsFetched,                  \* the conversation fetched after the change has an ID
  ucsRan,                      \* the effects the call has performed
  ucsResult,                   \* what the last call returned
  ucsCalls,                    \* calls made
  resolvedAtBroadcast          \* the resolved_at value last broadcast (0: none)

statusStore == <<conversationStatus, snoozedUntil, resolvedAt, activities>>
statusVars == <<statusStore, clock, ucsPc, ucsStatus, ucsSnoozeDur, ucsSnoozeUntil, ucsBefore,
                ucsFetched, ucsRan, ucsResult, ucsCalls, resolvedAtBroadcast>>

VARIABLES
  \* ---- calls of QueueReply by the agents on one conversation ----
  assignedUserID,              \* conversations.assigned_user_id (0: unassigned)
  qrPc,                        \* by agent: idle | inbox | insert | get | assign
  qrAuto,                      \* by agent: inboxConfig.AutoAssignOnReply of the call
  qrResult,                    \* by agent: none | nil | error, of the last call
  qrQueued,                    \* by agent: Pending replies the agent's calls inserted
  qrLogged,                    \* by agent: the last call logged an assignment error
  qrCalls                      \* calls made

replyVars == <<assignedUserID, qrPc, qrAuto, qrResult, qrQueued, qrLogged, qrCalls>>

VARIABLES
  \* ---- RunTrashManager ----
  trashSettings,               \* what getSettings returns: days by step
  trPc,                        \* wait | resolved | spam | purge | exited
  trDays,                      \* the arguments of the running runTrashCycle
  trRan,                       \* statements the running (or last) cycle executed
  trFailed,                    \* statements whose error that cycle logged
  trApplied,                   \* by step: executions that succeeded, in all cycles
  trCycles,                    \* ticks taken
  trCtxDone                    \* the context of RunTrashManager is cancelled

trashVars == <<trashSettings, trPc, trDays, trRan, trFailed, trApplied, trCycles, trCtxDone>>

VARIABLES
  \* ---- processIncomingMessage after the insert, on one existing conversation ----
  hkBefore,                    \* the conversation's status at the start
  hkStatus,                    \* conversations.status
  hkActivities,                \* status-change activities recorded on it
  hkWaitingSince,              \* conversations.waiting_since is set
  hkSLA,                       \* the conversation has an SLA policy applied
  hkSLAEvents,                 \* next-response SLA events created
  hkPc,                        \* by worker: idle | created | user | reopen | record | waiting | fetch | sla
  hkNew,                       \* by worker: isNewConversation
  hkRan,                       \* by worker: what the execution has run
  hkReturned,                  \* by worker: the execution has returned nil
  hkCalls                      \* executions started

hookVars == <<hkBefore, hkStatus, hkActivities, hkWaitingSince, hkSLA, hkSLAEvents,
              hkPc, hkNew, hkRan, hkReturned, hkCalls>>

VARIABLES
  \* ---- inbox Manager: Start, Reload, Close and the receiver goroutines ----
  imInboxes,                   \* keys of m.inboxes
  imReceivers,                 \* m.receivers: by inbox id, the batch whose cancel func is registered
  imRoutine,                   \* by <<batch, inbox id>>: none | running | returned
  imCancelled,                 \* the goroutines whose receiverCtx is cancelled
  imWg,                        \* m.wg's counter
  imStarted,                   \* Start has been called
  imReloads,                   \* calls of Reload so far
  imClosePc                    \* Close: idle | waiting | returned

inboxVars == <<imInboxes, imReceivers, imRoutine, imCancelled, imWg, imStarted,
               imReloads, imClosePc>>

\* The variables of the operations on assignment, trash and inboxes.
moreOpVars == <<replyVars, trashVars, hookVars, inboxVars>>

\* What the earlier subsystems hold.
coreVars == <<outVars, queueVars, ingestVars, threadVars, insertVars, statusVars>>

\* What a call of QueueReply leaves alone besides replyVars.
replyOthers == <<coreVars, trashVars, hookVars, inboxVars>>

\* What the trash manager leaves alone besides trashVars.
trashOthers == <<coreVars, replyVars, hookVars, inboxVars>>

\* What the tail of processIncomingMessage leaves alone besides hookVars.
hookOthers == <<coreVars, replyVars, trashVars, inboxVars>>

\* What the inbox manager leaves alone besides inboxVars.
inboxOthers == <<coreVars, replyVars, trashVars, hookVars>>

\* The variables of the single operations.
opVars == <<threadVars, insertVars, statusVars, moreOpVars>>

vars == <<outVars, queueVars, ingestVars, opVars>>

\* What the outbound dispatch leaves alone.
otherVars == <<queueVars, ingestVars, opVars>>

(***************************************************************************)
(* Helpers.                                                                *)
(***************************************************************************)
RECURSIVE SetToSeq(_)
\* The elements of a finite set of integers, in ascending order.
SetToSeq(S) ==
  IF S = {} THEN <<>>
  ELSE LET x == CHOOSE y \in S : \A z \in S : y <= z
       IN <<x>> \o SetToSeq(S \ {x})

Range(s) == {s[i] : i \in DOMAIN s}

(***************************************************************************)
(* The store.                                                              *)
(***************************************************************************)
\* q.GetOutgoingPendingMessages: the outgoing messages in status Pending whose
\* id is not among the ids passed.
GetOutgoingPendingMessages(excluded) ==
  SetToSeq({m \in Messages : msgStatus[m] = MessageStatusPending /\ m \notin excluded})

\* UpdateMessageStatus: the status column after the call; when the store
\* rejects the write (ok = FALSE) the row is left as it was.
UpdateMessageStatus(m, status, ok) ==
  IF ok THEN [msgStatus EXCEPT ![m] = status] ELSE msgStatus

\* getOutgoingProcessingMessageIDs: the keys of the tracker.
getOutgoingProcessingMessageIDs == outgoingProcessingMessages

(***************************************************************************)
(* Initial state: New() followed by Run() starting the workers.            *)
(***************************************************************************)
InitOut ==
  /\ msgStatus = [m \in Messages |-> "None"]
  /\ msgSender = [m \in Messages |-> "none"]
  /\ msgPrivate = [m \in Messages |-> FALSE]
  /\ firstReplyAt = 0
  /\ lastReplyAt = 0
  /\ waitingSince = TRUE
  /\ slaEvent = "pending"
  /\ outgoingHooks = 0
  /\ now = 1
  /\ outgoingProcessingMessages = {}
  /\ outgoingMessageQueue = <<>>
  /\ runPc = "wait"
  /\ runMessageIDs = {}
  /\ runPending = <<>>
  /\ senderPc = [w \in SenderWorkers |-> "recv"]
  /\ senderMsg = [w \in SenderWorkers |-> NoMessage]
  /\ wasSent = [m \in Messages |-> FALSE]
  /\ authorized = [m \in Messages |-> FALSE]
  /\ adapterSends = [m \in Messages |-> 0]
  /\ retries = 0
  /\ storeFailures = 0

\* New() makes the ingestion channel with its capacity; Run starts the workers.
InitQueue ==
  /\ incomingMessageQueue = <<>>
  /\ closed = FALSE
  /\ closePc = "idle"
  /\ ctxDone = FALSE
  /\ producerPc = [p \in Producers |-> "idle"]
  /\ incomingPc = [w \in IncomingWorkers |-> "recv"]
  /\ enqAccepted = 0
  /\ enqFull = 0
  /\ enqClosed = 0
  /\ dequeued = 0
  /\ incomingMsg = [w \in IncomingWorkers |-> NoEnvelopeID]
  /\ processedCount = [e \in EnvelopeIDs |-> 0]
  /\ incomingLogged = [w \in IncomingWorkers |-> FALSE]

\* The inbound store holds one Resolved conversation of contact a@x with one
\* message; the workers wait for envelopes.
InitIngest ==
  /\ convContact = [c \in ConvIds |-> IF c = 1 THEN "a@x" ELSE ""]
  /\ convStatus = [c \in ConvIds |-> IF c = 1 THEN "Resolved" ELSE "None"]
  /\ srcConv = [s \in SourceIDs |-> IF s = 1 THEN 1 ELSE NoConversation]
  /\ srcStatus = [s \in SourceIDs |-> IF s = 1 THEN MessageStatusReceived ELSE "None"]
  /\ statusActivities = [c \in ConvIds |-> 0]
  /\ nextConvID = 2
  /\ procPc = [w \in Processors |-> "recv"]
  /\ procEnv = [w \in Processors |-> NoEnvelope]
  /\ procHints = [w \in Processors |-> NoHints]
  /\ procConv = [w \in Processors |-> NoConversation]
  /\ procNew = [w \in Processors |-> FALSE]
  /\ procResult = [w \in Processors |-> "none"]
  /\ deliveries = 0

\* No outgoing message whose headers are being built.
InitThreadIdle ==
  /\ threadConv = <<>>
  /\ threadSelf = NoSource
  /\ threadPc = "idle"
  /\ threadLogged = FALSE
  /\ References = <<>>
  /\ InReplyTo = NoSource

\* No call of InsertMessage under way.
InitInsertIdle ==
  /\ insPc = "idle"
  /\ insMedia = 0
  /\ insRow = FALSE
  /\ insRan = {}
  /\ insFailed = {}
  /\ insResult = "none"

\* None of the single operations under way.
\* A conversation as CreateConversation leaves it (status Open); no call of
\* UpdateConversationStatus is in progress.
InitStatus ==
  /\ conversationStatus = "Open"
  /\ snoozedUntil = 0
  /\ resolvedAt = 0
  /\ activities = 0
  /\ clock = 1
  /\ ucsPc = "idle"
  /\ ucsStatus = "None"
  /\ ucsSnoozeDur = ""
  /\ ucsSnoozeUntil = 0
  /\ ucsBefore = [status |-> "None", resolvedAt |-> 0]
  /\ ucsFetched = FALSE
  /\ ucsRan = {}
  /\ ucsResult = "none"
  /\ ucsCalls = 0
  /\ resolvedAtBroadcast = 0

\* models.Status*: the statuses of a conversation.
ConvStatuses == {"Open", "Snoozed", "Resolved", "Closed", "Spam", "Trashed"}

Agents == 1..NumAgents
NoUser == 0

InitReply ==
  /\ assignedUserID = NoUser
  /\ qrPc = [a \in Agents |-> "idle"]
  /\ qrAuto = [a \in Agents |-> FALSE]
  /\ qrResult = [a \in Agents |-> "none"]
  /\ qrQueued = [a \in Agents |-> 0]
  /\ qrLogged = [a \in Agents |-> FALSE]
  /\ qrCalls = 0

\* The steps of a trash cycle, in the order runTrashCycle takes them, and
\* the retention settings in days (0 and less: disabled).
TrashSteps == <<"resolved", "spam", "purge">>
TrashStepNames == {TrashSteps[i] : i \in 1..Len(TrashSteps)}
RetentionDays == {-1, 0, 30}

InitTrash ==
  /\ trashSettings \in [TrashStepNames -> RetentionDays]
  /\ trPc = "wait"
  /\ trDays = [st \in TrashStepNames |-> 0]
  /\ trRan = {}
  /\ trFailed = {}
  /\ trApplied = [st \in TrashStepNames |-> 0]
  /\ trCycles = 0
  /\ trCtxDone = FALSE

\* The trash manager before its first tick, with the defaults of the README.
InitTrashIdle ==
  /\ InitTrash
  /\ trashSettings = [st \in TrashStepNames |-> 30]

\* An existing conversation in any status, with or without an SLA policy,
\* and no execution past its insert.
InitHooks ==
  /\ hkBefore \in ConvStatuses
  /\ hkStatus = hkBefore
  /\ hkActivities = 0
  /\ hkWaitingSince = FALSE
  /\ hkSLA \in BOOLEAN
  /\ hkSLAEvents = 0
  /\ hkPc = [w \in Processors |-> "idle"]
  /\ hkNew = [w \in Processors |-> FALSE]
  /\ hkRan = [w \in Processors |-> {}]
  /\ hkReturned = [w \in Processors |-> FALSE]
  /\ hkCalls = 0

\* The same with the conversation Open and without a policy.
InitHooksIdle ==
  /\ InitHooks
  /\ hkBefore = "Open"
  /\ hkSLA = FALSE

\* The inbox ids, and the batches of receiver goroutines: batch 0 is started
\* by Start, batch n by the n-th Reload.
InboxIDs == 1..NumInboxes
Batches == 0..MaxReloads
NoBatch == -1
Routines == Batches \X InboxIDs

\* The inbox manager after the inboxes were registered: no receiver yet.
InitInbox ==
  /\ imInboxes \in SUBSET InboxIDs
  /\ imReceivers = [i \in InboxIDs |-> NoBatch]
  /\ imRoutine = [r \in Routines |-> "none"]
  /\ imCancelled = {}
  /\ imWg = 0
  /\ imStarted = FALSE
  /\ imReloads = 0
  /\ imClosePc = "idle"

\* The same with every inbox registered.
InitInboxIdle ==
  /\ InitInbox
  /\ imInboxes = InboxIDs

InitMoreOps == InitReply /\ InitTrashIdle /\ InitHooksIdle /\ InitInboxIdle

InitOpsIdle == InitThreadIdle /\ InitInsertIdle /\ InitStatus /\ InitMoreOps

Init == InitOut /\ InitQueue /\ InitIngest /\ InitOpsIdle

\* A store with two conversations: the first, of contact a@x, in any status,
\* holds the persisted message; the second, of contact A@x, is Open and holds
\* no message with a source id in play.
InitMatchStore ==
  /\ convContact = [c \in ConvIds |-> IF c = 1 THEN "a@x" ELSE IF c = 2 THEN "A@x" ELSE ""]
  /\ convStatus \in {[c \in ConvIds |-> IF c = 1 THEN st ELSE IF c = 2 THEN "Open" ELSE "None"] :
                       st \in ConvStatuses}
  /\ srcConv = [s \in SourceIDs |-> IF s = 1 THEN 1 ELSE NoConversation]
  /\ srcStatus = [s \in SourceIDs |-> IF s = 1 THEN MessageStatusReceived ELSE "None"]
  /\ statusActivities = [c \in ConvIds |-> 0]
  /\ nextConvID = 3
  /\ procPc = [w \in Processors |-> "recv"]
  /\ procEnv = [w \in Processors |-> NoEnvelope]
  /\ procHints = [w \in Processors |-> NoHints]
  /\ procConv = [w \in Processors |-> NoConversation]
  /\ procNew = [w \in Processors |-> FALSE]
  /\ procResult = [w \in Processors |-> "none"]
  /\ deliveries = 0

InitMatch == InitOut /\ InitQueue /\ InitMatchStore /\ InitOpsIdle

\* The outcomes a status write may have: the store may reject it while the
\* run's budget of rejected writes lasts.
WriteOutcomes == IF storeFailures < MaxStoreFailures THEN {TRUE, FALSE} ELSE {TRUE}

CountFailure(ok) == IF ok THEN storeFailures ELSE storeFailures + 1

(***************************************************************************)
(* QueueReply: inserts an outgoing, non-private message in status Pending. *)
(* Rows get their ids from a sequence, so the next free id is used.        *)
(***************************************************************************)
QueueReply(m, sender) ==
  /\ msgStatus[m] = "None"
  /\ \A k \in Messages : k < m => msgStatus[k] # "None"
  /\ msgStatus' = [msgStatus EXCEPT ![m] = MessageStatusPending]
  /\ msgSender' = [msgSender EXCEPT ![m] = sender]
  /\ msgPrivate' = [msgPrivate EXCEPT ![m] = FALSE]
  /\ authorized' = [authorized EXCEPT ![m] = TRUE]
  /\ UNCHANGED <<firstReplyAt, lastReplyAt, waitingSince, slaEvent, outgoingHooks, now>>
  /\ UNCHANGED <<outgoingProcessingMessages, outgoingMessageQueue, runVars, senderVars>>
  /\ UNCHANGED <<wasSent, adapterSends, retries, storeFailures>>
  /\ UNCHANGED otherVars

(***************************************************************************)
(* handleRetryMessage -> MarkMessageAsPending: sets the status of an       *)
(* existing message to Pending, whatever its status is.                    *)
(***************************************************************************)
MarkMessageAsPending(m, ok) ==
  /\ msgStatus[m] # "None"
  /\ retries < MaxRetries
  /\ retries' = retries + 1
  /\ msgStatus' = UpdateMessageStatus(m, MessageStatusPending, ok)
  /\ storeFailures' = CountFailure(ok)
  /\ authorized' = [authorized EXCEPT ![m] = @ \/ ok]
  /\ UNCHANGED <<msgSender, msgPrivate, firstReplyAt, lastReplyAt, waitingSince, slaEvent, outgoingHooks, now>>
  /\ UNCHANGED <<outgoingProcessingMessages, outgoingMessageQueue, runVars, senderVars>>
  /\ UNCHANGED <<wasSent, adapterSends>>
  /\ UNCHANGED otherVars

(***************************************************************************)
(* Run: the scanner loop. One tick reads the tracker, queries the store,   *)
(* and for each pending message stores its id in the tracker and pushes    *)
(* it to outgoingMessageQueue (a blocking channel send).                   *)
(***************************************************************************)
\* case <-dbScanner.C: messageIDs = m.getOutgoingProcessingMessageIDs()
RunTick ==
  /\ runPc = "wait"
  /\ runMessageIDs' = getOutgoingProcessingMessageIDs
  /\ runPc' = "query"
  /\ UNCHANGED <<storeVars, outgoingProcessingMessages, outgoingMessageQueue, runPending, senderVars, historyVars>>
  /\ UNCHANGED otherVars

\* GetOutgoingPendingMessages.Select; an error is logged and the tick ends.
RunQuery(ok) ==
  /\ runPc = "query"
  /\ runPending' = IF ok THEN GetOutgoingPendingMessages(runMessageIDs) ELSE <<>>
  /\ runPc' = IF runPending' = <<>> THEN "wait" ELSE "store"
  /\ runMessageIDs' = {}
  /\ UNCHANGED <<storeVars, outgoingProcessingMessages, outgoingMessageQueue, senderVars, historyVars>>
  /\ UNCHANGED otherVars

\* Mutant of RunStore: the id is not recorded in the tracker before the push.
RunStore_NoTrack ==
  /\ runPc = "store"
  /\ runPc' = "push"
  /\ UNCHANGED <<storeVars, outgoingProcessingMessages, outgoingMessageQueue, runMessageIDs, runPending, senderVars, historyVars>>
  /\ UNCHANGED otherVars

\* m.outgoingProcessingMessages.Store(message.ID, message.ID)
RunStore ==
  /\ runPc = "store"
  /\ outgoingProcessingMessages' = outgoingProcessingMessages \cup {Head(runPending)}
  /\ runPc' = "push"
  /\ UNCHANGED <<storeVars, outgoingMessageQueue, runMessageIDs, runPending, senderVars, historyVars>>
  /\ UNCHANGED otherVars

\* Mutant of RunPush: the message is not sent on the channel, its id
\* staying in the tracker.
RunPush_NoSend ==
  /\ runPc = "push"
  /\ ~closed
  /\ outgoingMessageQueue' = outgoingMessageQueue
  /\ runPending' = Tail(runPending)
  /\ runPc' = IF runPending' = <<>> THEN "wait" ELSE "store"
  /\ authorized' = [authorized EXCEPT ![Head(runPending)] = FALSE]
  /\ UNCHANGED <<storeVars, outgoingProcessingMessages, runMessageIDs, senderVars>>
  /\ UNCHANGED <<wasSent, adapterSends, retries, storeFailures>>
  /\ UNCHANGED otherVars

\* m.outgoingMessageQueue <- message: blocks while the buffer is full. (On a
\* channel that Close has closed the send panics: RunPushClosed.)
RunPush ==
  /\ runPc = "push"
  /\ ~closed
  /\ Len(outgoingMessageQueue) < OutgoingMessageQueueSize
  /\ outgoingMessageQueue' = Append(outgoingMessageQueue, Head(runPending))
  /\ runPending' = Tail(runPending)
  /\ runPc' = IF runPending' = <<>> THEN "wait" ELSE "store"
  /\ authorized' = [authorized EXCEPT ![Head(runPending)] = FALSE]
  /\ UNCHANGED <<storeVars, outgoingProcessingMessages, runMessageIDs, senderVars>>
  /\ UNCHANGED <<wasSent, adapterSends, retries, storeFailures>>
  /\ UNCHANGED otherVars

(***************************************************************************)
(* MessageSenderWorker and sendOutgoingMessage.                            *)
(***************************************************************************)
\* case message, ok := <-m.outgoingMessageQueue
MessageSenderWorkerRecv(w) ==
  /\ senderPc[w] = "recv"
  /\ outgoingMessageQueue # <<>>
  /\ senderMsg' = [senderMsg EXCEPT ![w] = Head(outgoingMessageQueue)]
  /\ outgoingMessageQueue' = Tail(outgoingMessageQueue)
  /\ senderPc' = [senderPc EXCEPT ![w] = "send"]
  /\ UNCHANGED <<storeVars, outgoingProcessingMessages, runVars, historyVars>>
  /\ UNCHANGED otherVars

\* The steps up to the status write. inboxStore.Get, RenderMessageInTemplate,
\* attachAttachmentsToMessage and inbox.Send may each fail (outcome names the
\* first that does); handleError then writes Failed and the execution returns.
\* After a successful Send the status is written Sent. The error of the status
\* write is not looked at (ok = FALSE: the store rejected it).
sendOutgoingMessageSend(w, outcome, ok) ==
  /\ senderPc[w] = "send"
  /\ LET m == senderMsg[w]
         status == IF outcome = "ok" THEN MessageStatusSent ELSE MessageStatusFailed
     IN /\ msgStatus' = UpdateMessageStatus(m, status, ok)
        /\ wasSent' = [wasSent EXCEPT ![m] = @ \/ (ok /\ status = MessageStatusSent)]
        /\ adapterSends' = [adapterSends EXCEPT ![m] = IF outcome = "ok" THEN @ + 1 ELSE @]
  /\ storeFailures' = CountFailure(ok)
  /\ senderPc' = [senderPc EXCEPT ![w] = IF outcome = "ok" THEN "post" ELSE "defer"]
  /\ UNCHANGED <<msgSender, msgPrivate, firstReplyAt, lastReplyAt, waitingSince, slaEvent, outgoingHooks, now>>
  /\ UNCHANGED <<outgoingProcessingMessages, outgoingMessageQueue, runVars, senderMsg>>
  /\ UNCHANGED <<authorized, retries>>
  /\ UNCHANGED otherVars

\* The bookkeeping after a successful Send, for human senders only.
sendOutgoingMessagePost(w, outcome) ==
  /\ senderPc[w] = "post"
  /\ senderPc' = [senderPc EXCEPT ![w] = "defer"]
  /\ IF outcome = "ok" /\ msgSender[senderMsg[w]] # "system"
     THEN /\ firstReplyAt' = IF firstReplyAt = 0 THEN now ELSE firstReplyAt
          /\ lastReplyAt' = now
          /\ waitingSince' = FALSE
          /\ slaEvent' = IF slaEvent = "pending" THEN "met" ELSE slaEvent
          /\ outgoingHooks' = outgoingHooks + 1
          /\ now' = now + 1
     ELSE UNCHANGED <<firstReplyAt, lastReplyAt, waitingSince, slaEvent, outgoingHooks, now>>
  /\ UNCHANGED <<msgStatus, msgSender, msgPrivate>>
  /\ UNCHANGED <<outgoingProcessingMessages, outgoingMessageQueue, runVars, senderMsg, historyVars>>
  /\ UNCHANGED otherVars

\* Mutant of sendOutgoingMessageDefer: the Delete is not deferred but placed
\* at the end of the success path, so an early return keeps the entry.
sendOutgoingMessageDefer_OnSuccessOnly(w) ==
  /\ senderPc[w] = "defer"
  /\ outgoingProcessingMessages' =
       IF msgStatus[senderMsg[w]] = MessageStatusSent
       THEN outgoingProcessingMessages \ {senderMsg[w]}
       ELSE outgoingProcessingMessages
  /\ senderPc' = [senderPc EXCEPT ![w] = "recv"]
  /\ senderMsg' = [senderMsg EXCEPT ![w] = NoMessage]
  /\ UNCHANGED <<storeVars, outgoingMessageQueue, runVars, historyVars>>
  /\ UNCHANGED otherVars

\* defer m.outgoingProcessingMessages.Delete(message.ID), then back to the
\* worker's loop.
sendOutgoingMessageDefer(w) ==
  /\ senderPc[w] = "defer"
  /\ outgoingProcessingMessages' = outgoingProcessingMessages \ {senderMsg[w]}
  /\ senderPc' = [senderPc EXCEPT ![w] = "recv"]
  /\ senderMsg' = [senderMsg EXCEPT ![w] = NoMessage]
  /\ UNCHANGED <<storeVars, outgoingMessageQueue, runVars, historyVars>>
  /\ UNCHANGED otherVars

NextOut ==
  \/ \E m \in Messages, s \in SenderKinds : QueueReply(m, s)
  \/ \E m \in Messages, ok \in WriteOutcomes : MarkMessageAsPending(m, ok)
  \/ RunTick
  \/ \E ok \in BOOLEAN : RunQuery(ok)
  \/ RunStore
  \/ RunPush
  \/ \E w \in SenderWorkers : MessageSenderWorkerRecv(w)
  \/ \E w \in SenderWorkers, o \in SendOutcomes, ok \in WriteOutcomes : sendOutgoingMessageSend(w, o, ok)
  \/ \E w \in SenderWorkers, o \in PostOutcomes : sendOutgoingMessagePost(w, o)
  \/ \E w \in SenderWorkers : sendOutgoingMessageDefer(w)

Spec == Init /\ [][NextOut]_vars

(***************************************************************************)
(* Properties of the outbound dispatch (checked under Spec).               *)
(***************************************************************************)
\* The scanner's push of message m: the blocking channel send of Run succeeds.
RunPushes(m) ==
  /\ runPc = "push"
  /\ runPending # <<>>
  /\ Head(runPending) = m
  /\ runPc' # "push"

\* Worker w is inside sendOutgoingMessage.
Executing(w) == senderMsg[w] # NoMessage

\* C1: at-most-one concurrent dispatch. In every reachable state no two
\* workers are executing sendOutgoingMessage for the same message id, whatever
\* the interleaving of scan ticks, workers and MarkMessageAsPending.
C1_AtMostOneConcurrentDispatch ==
  \A w1, w2 \in SenderWorkers :
    (w1 # w2 /\ Executing(w1)) => senderMsg[w1] # senderMsg[w2]

\* C1 witness: a scan tick overlaps a send that is still running: the tick has
\* read the tracker with the message in it, after an explicit retry.
C1_Witness ==
  /\ runPc = "query"
  /\ retries > 0
  /\ \E w \in SenderWorkers : senderPc[w] = "send" /\ senderMsg[w] \in runMessageIDs

\* C6 (the claim as stated): once a message's status has been Sent, no later
\* scan tick pushes it to the dispatch queue.
C6_SentNeverPushedAgain ==
  [][\A m \in Messages : RunPushes(m) => ~wasSent[m]]_vars

\* C7 (the claim as stated): no automatic retry. A failing step ends the
\* execution, and the message it failed on is dispatched again only after
\* MarkMessageAsPending: the scanner pushes a message only for the dispatch
\* that QueueReply or MarkMessageAsPending asked for and that has not started.
C7_NoAutomaticRetry ==
  [][/\ \A w \in SenderWorkers :
         (\E o \in SendOutcomes \ {"ok"}, ok \in BOOLEAN : sendOutgoingMessageSend(w, o, ok))
           => senderPc'[w] = "defer"
     /\ \A m \in Messages : RunPushes(m) => authorized[m]]_vars

\* C8 (the claim as stated): when the adapter's Send returns an error the
\* message's status becomes Failed, the execution goes straight to its end,
\* and first-reply, last-reply, waiting-since, the SLA event and the
\* outgoing-message automation hook are left as they were.
C8_SendErrorScenario ==
  [][\A w \in SenderWorkers :
       (\E ok \in BOOLEAN : sendOutgoingMessageSend(w, "sendErr", ok))
         => /\ msgStatus'[senderMsg[w]] = MessageStatusFailed
            /\ senderPc'[w] = "defer"
            /\ UNCHANGED <<firstReplyAt, lastReplyAt, waitingSince, slaEvent, outgoingHooks>>]_vars

\* C9: tracker release. A message id is in the in-flight tracker for as long
\* as a worker is executing sendOutgoingMessage for it, and it is out of the
\* tracker at the moment that execution finishes, on every exit path.
C9_TrackerHeldThenReleased ==
  /\ [](\A w \in SenderWorkers : Executing(w) => senderMsg[w] \in outgoingProcessingMessages)
  /\ [][\A w \in SenderWorkers :
          (Executing(w) /\ senderMsg'[w] = NoMessage)
            => senderMsg[w] \notin outgoingProcessingMessages']_vars

\* C9 witness: an execution that failed has finished and its id is released.
C9_Witness ==
  \E m \in Messages :
    /\ msgStatus[m] = MessageStatusFailed
    /\ m \notin outgoingProcessingMessages
    /\ \A w \in SenderWorkers : ~Executing(w)

\* C34 (the claim as stated): delivery idempotence under store failure. The
\* adapter's Send has succeeded for a message at most once more than
\* MarkMessageAsPending has been called.
C34_SendAtMostOncePerRetry ==
  \A m \in Messages : adapterSends[m] <= 1 + retries

(***************************************************************************)
(* The ingestion queue: EnqueueIncoming, Close, the IncomingMessageWorker  *)
(* pool and the cancellation of Run's context. processIncomingMessage is   *)
(* one step of a worker here; SpecIngest follows it statement by statement.*)
(***************************************************************************)
\* m.closedMu is held by Close from its first statement until wg.Wait returns.
\* EnqueueIncoming holds it only inside one step.
closedMuHeld == closePc = "wait"

\* Calls of EnqueueIncoming made so far, returned or not.
EnqueueCalls ==
  enqAccepted + enqFull + enqClosed + Cardinality({p \in Producers : producerPc[p] = "lock"})

Min(a, b) == IF a <= b THEN a ELSE b

\* A caller arrives at m.closedMu.Lock().
EnqueueIncomingLock(p) ==
  /\ producerPc[p] = "idle"
  /\ EnqueueCalls < MaxEnqueue
  /\ producerPc' = [producerPc EXCEPT ![p] = "lock"]
  /\ UNCHANGED <<incomingMessageQueue, closed, closePc, ctxDone, incomingPc>>
  /\ UNCHANGED <<enqAccepted, enqFull, enqClosed, dequeued>>
  /\ UNCHANGED workVars
  /\ UNCHANGED <<outVars, ingestVars, opVars>>

\* Mutant of EnqueueIncoming: a plain channel send without the default branch
\* of the select, on a channel that grows.
EnqueueIncoming_NoDefault(p) ==
  /\ producerPc[p] = "lock"
  /\ ~closedMuHeld
  /\ IF closed
     THEN /\ enqClosed' = enqClosed + 1
          /\ UNCHANGED <<incomingMessageQueue, enqAccepted, enqFull>>
     ELSE /\ incomingMessageQueue' = Append(incomingMessageQueue, enqAccepted + 1)
          /\ enqAccepted' = enqAccepted + 1
          /\ UNCHANGED <<enqFull, enqClosed>>
  /\ producerPc' = [producerPc EXCEPT ![p] = "idle"]
  /\ UNCHANGED <<closed, closePc, ctxDone, incomingPc, dequeued>>
  /\ UNCHANGED workVars
  /\ UNCHANGED <<outVars, ingestVars, opVars>>

\* Mutant of EnqueueIncoming: the closed flag is not read; the send on a
\* closed channel is taken as accepted.
EnqueueIncoming_NoClosedCheck(p) ==
  /\ producerPc[p] = "lock"
  /\ ~closedMuHeld
  /\ IF Len(incomingMessageQueue) < IncomingMessageQueueSize
     THEN /\ incomingMessageQueue' = Append(incomingMessageQueue, enqAccepted + 1)
          /\ enqAccepted' = enqAccepted + 1
          /\ UNCHANGED <<enqFull, enqClosed>>
     ELSE /\ enqFull' = enqFull + 1
          /\ UNCHANGED <<incomingMessageQueue, enqAccepted, enqClosed>>
  /\ producerPc' = [producerPc EXCEPT ![p] = "idle"]
  /\ UNCHANGED <<closed, closePc, ctxDone, incomingPc, dequeued>>
  /\ UNCHANGED workVars
  /\ UNCHANGED <<outVars, ingestVars, opVars>>

\* EnqueueIncoming once it has the mutex: the closed check, the non-blocking
\* send (select with default), the deferred Unlock and the return.
EnqueueIncoming(p) ==
  /\ producerPc[p] = "lock"
  /\ ~closedMuHeld
  /\ IF closed
     THEN /\ enqClosed' = enqClosed + 1
          /\ UNCHANGED <<incomingMessageQueue, enqAccepted, enqFull>>
     ELSE IF Len(incomingMessageQueue) < IncomingMessageQueueSize
     THEN /\ incomingMessageQueue' = Append(incomingMessageQueue, enqAccepted + 1)
          /\ enqAccepted' = enqAccepted + 1
          /\ UNCHANGED <<enqFull, enqClosed>>
     ELSE /\ enqFull' = enqFull + 1
          /\ UNCHANGED <<incomingMessageQueue, enqAccepted, enqClosed>>
  /\ producerPc' = [producerPc EXCEPT ![p] = "idle"]
  /\ UNCHANGED <<closed, closePc, ctxDone, incomingPc, dequeued>>
  /\ UNCHANGED workVars
  /\ UNCHANGED <<outVars, ingestVars, opVars>>

\* Close up to wg.Wait: takes the mutex, sets closed, closes both channels.
Close ==
  /\ closePc = "idle"
  /\ closed' = TRUE
  /\ closePc' = "wait"
  /\ UNCHANGED <<incomingMessageQueue, ctxDone, producerPc, incomingPc>>
  /\ UNCHANGED <<enqAccepted, enqFull, enqClosed, dequeued>>
  /\ UNCHANGED workVars
  /\ UNCHANGED <<outVars, ingestVars, opVars>>

\* Mutant of CloseReturn: Close returns without waiting for the workers.
CloseReturn_NoWait ==
  /\ closePc = "wait"
  /\ closePc' = "done"
  /\ UNCHANGED <<incomingMessageQueue, closed, ctxDone, producerPc, incomingPc>>
  /\ UNCHANGED <<enqAccepted, enqFull, enqClosed, dequeued>>
  /\ UNCHANGED workVars
  /\ UNCHANGED <<outVars, ingestVars, opVars>>

\* wg.Wait returns when every worker goroutine has returned; the deferred
\* Unlock releases the mutex.
CloseReturn ==
  /\ closePc = "wait"
  /\ \A w \in IncomingWorkers : incomingPc[w] = "exited"
  /\ \A w \in SenderWorkers : senderPc[w] = "exited"
  /\ closePc' = "done"
  /\ UNCHANGED <<incomingMessageQueue, closed, ctxDone, producerPc, incomingPc>>
  /\ UNCHANGED <<enqAccepted, enqFull, enqClosed, dequeued>>
  /\ UNCHANGED workVars
  /\ UNCHANGED <<outVars, ingestVars, opVars>>

\* Mutant of IncomingMessageWorkerRecv: the worker reads the first envelope
\* of the buffer and leaves it there.
IncomingMessageWorkerRecv_Peek(w) ==
  /\ incomingPc[w] = "recv"
  /\ incomingMessageQueue # <<>>
  /\ incomingPc' = [incomingPc EXCEPT ![w] = "process"]
  /\ incomingMsg' = [incomingMsg EXCEPT ![w] = Head(incomingMessageQueue)]
  /\ dequeued' = dequeued + 1
  /\ UNCHANGED <<incomingMessageQueue, closed, closePc, ctxDone, producerPc>>
  /\ UNCHANGED <<enqAccepted, enqFull, enqClosed>>
  /\ UNCHANGED <<processedCount, incomingLogged>>
  /\ UNCHANGED <<outVars, ingestVars, opVars>>

\* case msg, ok := <-m.incomingMessageQueue with an envelope in the buffer
\* (a closed channel still delivers what it holds).
IncomingMessageWorkerRecv(w) ==
  /\ incomingPc[w] = "recv"
  /\ incomingMessageQueue # <<>>
  /\ incomingMessageQueue' = Tail(incomingMessageQueue)
  /\ incomingPc' = [incomingPc EXCEPT ![w] = "process"]
  /\ incomingMsg' = [incomingMsg EXCEPT ![w] = Head(incomingMessageQueue)]
  /\ dequeued' = dequeued + 1
  /\ UNCHANGED <<closed, closePc, ctxDone, producerPc, enqAccepted, enqFull, enqClosed>>
  /\ UNCHANGED <<processedCount, incomingLogged>>
  /\ UNCHANGED <<outVars, ingestVars, opVars>>

\* Mutant of IncomingMessageWorkerProcess: the worker returns when the
\* pipeline returned an error.
IncomingMessageWorkerProcess_ExitOnError(w, ok) ==
  /\ incomingPc[w] = "process"
  /\ incomingPc' = [incomingPc EXCEPT ![w] = IF ok THEN "recv" ELSE "exited"]
  /\ processedCount' = [processedCount EXCEPT ![incomingMsg[w]] = @ + 1]
  /\ incomingMsg' = [incomingMsg EXCEPT ![w] = NoEnvelopeID]
  /\ incomingLogged' = [incomingLogged EXCEPT ![w] = ~ok]
  /\ UNCHANGED <<incomingMessageQueue, closed, closePc, ctxDone, producerPc>>
  /\ UNCHANGED <<enqAccepted, enqFull, enqClosed, dequeued>>
  /\ UNCHANGED <<outVars, ingestVars, opVars>>

\* processIncomingMessage runs on the envelope and returns, with an error
\* (ok = FALSE), which the worker logs, or without; the loop goes on.
IncomingMessageWorkerProcess(w, ok) ==
  /\ incomingPc[w] = "process"
  /\ incomingPc' = [incomingPc EXCEPT ![w] = "recv"]
  /\ processedCount' = [processedCount EXCEPT ![incomingMsg[w]] = @ + 1]
  /\ incomingMsg' = [incomingMsg EXCEPT ![w] = NoEnvelopeID]
  /\ incomingLogged' = [incomingLogged EXCEPT ![w] = ~ok]
  /\ UNCHANGED <<incomingMessageQueue, closed, closePc, ctxDone, producerPc>>
  /\ UNCHANGED <<enqAccepted, enqFull, enqClosed, dequeued>>
  /\ UNCHANGED <<outVars, ingestVars, opVars>>

\* Mutant of IncomingMessageWorkerExit: the worker returns as soon as the
\* queue is closed, whatever the buffer holds.
IncomingMessageWorkerExit_OnClose(w) ==
  /\ incomingPc[w] = "recv"
  /\ ctxDone \/ closed
  /\ incomingPc' = [incomingPc EXCEPT ![w] = "exited"]
  /\ UNCHANGED <<incomingMessageQueue, closed, closePc, ctxDone, producerPc>>
  /\ UNCHANGED <<enqAccepted, enqFull, enqClosed, dequeued>>
  /\ UNCHANGED workVars
  /\ UNCHANGED <<outVars, ingestVars, opVars>>

\* The worker returns: case <-ctx.Done(), or the channel is closed and empty.
IncomingMessageWorkerExit(w) ==
  /\ incomingPc[w] = "recv"
  /\ ctxDone \/ (closed /\ incomingMessageQueue = <<>>)
  /\ incomingPc' = [incomingPc EXCEPT ![w] = "exited"]
  /\ UNCHANGED <<incomingMessageQueue, closed, closePc, ctxDone, producerPc>>
  /\ UNCHANGED <<enqAccepted, enqFull, enqClosed, dequeued>>
  /\ UNCHANGED workVars
  /\ UNCHANGED <<outVars, ingestVars, opVars>>

\* MessageSenderWorker returns the same way.
MessageSenderWorkerExit(w) ==
  /\ senderPc[w] = "recv"
  /\ ctxDone \/ (closed /\ outgoingMessageQueue = <<>>)
  /\ senderPc' = [senderPc EXCEPT ![w] = "exited"]
  /\ UNCHANGED <<storeVars, outgoingProcessingMessages, outgoingMessageQueue, runVars, senderMsg, historyVars>>
  /\ UNCHANGED <<queueVars, ingestVars, opVars>>

\* The context given to Run is cancelled.
CancelCtx ==
  /\ ~ctxDone
  /\ ctxDone' = TRUE
  /\ UNCHANGED <<incomingMessageQueue, closed, closePc, producerPc, incomingPc>>
  /\ UNCHANGED <<enqAccepted, enqFull, enqClosed, dequeued>>
  /\ UNCHANGED workVars
  /\ UNCHANGED <<outVars, ingestVars, opVars>>

NextQueue ==
  \/ \E p \in Producers : EnqueueIncomingLock(p)
  \/ \E p \in Producers : EnqueueIncoming(p)
  \/ Close
  \/ CloseReturn
  \/ \E w \in IncomingWorkers : IncomingMessageWorkerRecv(w)
  \/ \E w \in IncomingWorkers, ok \in BOOLEAN : IncomingMessageWorkerProcess(w, ok)
  \/ \E w \in IncomingWorkers : IncomingMessageWorkerExit(w)
  \/ \E w \in SenderWorkers : MessageSenderWorkerExit(w)
  \/ CancelCtx

SpecQueue == Init /\ [][NextQueue]_vars

(***************************************************************************)
(* Properties of the ingestion queue (checked under SpecQueue).            *)
(***************************************************************************)
\* The call of producer p returns in this step.
EnqueueReturns(p) == producerPc[p] = "lock" /\ producerPc'[p] = "idle"

\* C4 (the claim as stated): a call on a queue that holds capacity-many items
\* returns "queue full" and does not add the item.
C4_FullQueueReturnsFull ==
  [][\A p \in Producers :
       (EnqueueReturns(p) /\ Len(incomingMessageQueue) = IncomingMessageQueueSize)
         => /\ enqFull' = enqFull + 1
            /\ incomingMessageQueue' = incomingMessageQueue]_vars

\* C4 (amended): the queue never holds more than its capacity; a call on a
\* queue that holds capacity-many items does not add the item and returns
\* "queue full", or "queue is closed" once Close has been called; and as long
\* as nothing has been received and Close has not been called, the accepted
\* calls are the first capacity-many: with capacity 1 and two producers,
\* exactly one is accepted and the other is rejected.
C4_FullQueueRejects ==
  /\ [](Len(incomingMessageQueue) <= IncomingMessageQueueSize)
  /\ [][\A p \in Producers :
          (EnqueueReturns(p) /\ Len(incomingMessageQueue) = IncomingMessageQueueSize)
            => /\ incomingMessageQueue' = incomingMessageQueue
               /\ enqAccepted' = enqAccepted
               /\ IF closed THEN enqClosed' = enqClosed + 1 /\ enqFull' = enqFull
                            ELSE enqFull' = enqFull + 1 /\ enqClosed' = enqClosed]_vars
  /\ []((dequeued = 0 /\ ~closed)
          => enqAccepted = Min(enqAccepted + enqFull, IncomingMessageQueueSize))

\* C4 witness: with nothing received, the queue is at capacity, a call has
\* been rejected as full, and after Close another as closed.
C4_Witness ==
  /\ dequeued = 0
  /\ Len(incomingMessageQueue) = IncomingMessageQueueSize
  /\ enqAccepted = IncomingMessageQueueSize
  /\ enqFull > 0
  /\ enqClosed > 0

\* C5 (the claim as stated): a caller of EnqueueIncoming never waits for a
\* worker to make progress: no caller stands at closedMu.Lock while the
\* mutex is held by a Close that waits for a worker to finish its envelope.
C5_EnqueueNeverWaitsForWorkers ==
  \A p \in Producers :
    producerPc[p] = "lock" =>
      ~(closedMuHeld /\ \E w \in IncomingWorkers : incomingPc[w] = "process")

\* C37: enqueue after shutdown. From the moment Close has set the closed
\* flag, which it does holding closedMu, every call of EnqueueIncoming that
\* returns does so with "incoming message queue is closed", leaving the
\* queue and the count of accepted envelopes as they are; nothing is ever
\* added to the closed queue; and no call is inside its critical section
\* while Close holds the mutex.
C37_EnqueueAfterShutdown ==
  /\ [][\A p \in Producers :
          (closed /\ EnqueueReturns(p))
            => /\ enqClosed' = enqClosed + 1
               /\ UNCHANGED <<incomingMessageQueue, enqAccepted, enqFull>>]_vars
  /\ [][closed => /\ closed'
                  /\ enqAccepted' = enqAccepted
                  /\ Len(incomingMessageQueue') <= Len(incomingMessageQueue)]_vars
  /\ [][\A p \in Producers : EnqueueReturns(p) => ~closedMuHeld]_vars
  /\ [][\A p \in Producers :
          (~closed /\ EnqueueReturns(p)) => enqClosed' = enqClosed]_vars

\* C37 witness: Close has returned; one envelope was accepted before it, and
\* two producers that called during or after it were both turned away.
C37_Witness ==
  /\ closePc = "done"
  /\ enqAccepted = 1
  /\ enqClosed = 2
  /\ enqFull = 0
  /\ \A p \in Producers : producerPc[p] = "idle"

(***************************************************************************)
(* The ingestion queue with goroutines that are scheduled: a worker that   *)
(* can receive or finish its envelope eventually does.                     *)
(***************************************************************************)
FairIncomingWorkers ==
  \A w \in IncomingWorkers :
    WF_vars(IncomingMessageWorkerRecv(w)
              \/ \E ok \in BOOLEAN : IncomingMessageWorkerProcess(w, ok))

SpecQueueFair == Init /\ [][NextQueue]_vars /\ FairIncomingWorkers

\* Where envelope e is: the number of its copies in the buffer, the number
\* of workers that hold it, and the number of completed runs of
\* processIncomingMessage on it.
InBuffer(e) ==
  Cardinality({i \in 1..Len(incomingMessageQueue) : incomingMessageQueue[i] = e})
InHand(e) == Cardinality({w \in IncomingWorkers : incomingMsg[w] = e})
Accepted(e) == e <= enqAccepted

\* C30: envelope consumed exactly once. An accepted envelope is at any time
\* in exactly one place: once in the buffer, in the hand of one worker, or
\* through one completed run of processIncomingMessage; an envelope that
\* was not accepted is nowhere. No envelope is run through the pipeline
\* twice, and while an accepted envelope is unprocessed the pool reaches,
\* unless the queue is closed or the context cancelled, a state in which
\* every accepted envelope has been processed once.
C30_EnvelopeConsumedOnce ==
  /\ [](\A e \in EnvelopeIDs :
          /\ processedCount[e] <= 1
          /\ InHand(e) <= 1
          /\ InBuffer(e) + InHand(e) + processedCount[e]
               = (IF Accepted(e) THEN 1 ELSE 0))
  /\ [](\A w \in IncomingWorkers :
          incomingPc[w] = "process" <=> incomingMsg[w] # NoEnvelopeID)
  /\ (\E e \in EnvelopeIDs : Accepted(e) /\ processedCount[e] = 0)
       ~> \/ \A e \in EnvelopeIDs : Accepted(e) => processedCount[e] = 1
          \/ closed \/ ctxDone

\* C30 witness: without Close or cancellation, the first envelope has been
\* processed once and two workers are running the pipeline at the same time,
\* one on the second envelope and one on the third.
C30_Witness ==
  /\ ~closed /\ ~ctxDone
  /\ processedCount[1] = 1
  /\ \E v, w \in IncomingWorkers :
       /\ v # w
       /\ incomingPc[v] = "process" /\ incomingMsg[v] = 2
       /\ incomingPc[w] = "process" /\ incomingMsg[w] = 3

(***************************************************************************)
(* processIncomingMessage, statement by statement, run by two ingestion    *)
(* workers against the conversation/message store. What an envelope says   *)
(* about the subject's reference number and about In-Reply-To/References   *)
(* is read once, at the rule that uses it, and is an input of that step.   *)
(***************************************************************************)
\* strings.EqualFold on the addresses in play: "A@x" and "a@x" differ in case.
Fold(e) == IF e = "A@x" THEN "a@x" ELSE e
EqualFold(a, b) == Fold(a) = Fold(b)

\* GetConversation by UUID or reference number: the row, or the zero value of
\* models.Conversation when there is no such row (NotFoundError).
GetConversation(c) ==
  IF c \in ConvIds /\ convStatus[c] # "None"
  THEN [id |-> c, email |-> convContact[c]]
  ELSE [id |-> NoConversation, email |-> ""]

\* messageExistsBySourceID for one source id: the conversation of the message
\* that carries it, or 0 (errConversationNotFound).
messageExistsBySourceID(s) ==
  IF s \in SourceIDs THEN srcConv[s] ELSE NoConversation

\* The execution of worker w is between its call and its return.
Processing(w) == procPc[w] # "recv"

\* processIncomingMessage returns at site r: the worker is back at its loop.
Return(w, r) ==
  /\ procPc' = [procPc EXCEPT ![w] = "recv"]
  /\ procResult' = [procResult EXCEPT ![w] = r]
  /\ procEnv' = [procEnv EXCEPT ![w] = NoEnvelope]
  /\ procHints' = [procHints EXCEPT ![w] = NoHints]
  /\ procConv' = [procConv EXCEPT ![w] = NoConversation]
  /\ procNew' = [procNew EXCEPT ![w] = FALSE]

\* The execution goes on at statement pc.
Goto(w, pc) ==
  /\ procPc' = [procPc EXCEPT ![w] = pc]
  /\ UNCHANGED <<procEnv, procHints, procResult>>

\* IncomingMessageWorker receives an envelope and calls processIncomingMessage;
\* hints is what the envelope's subject and headers are known to name.
processIncomingMessageCallWith(w, in, hints) ==
  /\ procPc[w] = "recv"
  /\ deliveries < MaxDeliveries
  /\ deliveries' = deliveries + 1
  /\ procPc' = [procPc EXCEPT ![w] = "contact"]
  /\ procEnv' = [procEnv EXCEPT ![w] = in]
  /\ procHints' = [procHints EXCEPT ![w] = hints]
  /\ procResult' = [procResult EXCEPT ![w] = "none"]
  /\ UNCHANGED <<procConv, procNew, ingestStore>>
  /\ UNCHANGED <<outVars, queueVars, opVars>>

\* The same with the subject and the headers left open until they are read.
processIncomingMessageCall(w, in) == processIncomingMessageCallWith(w, in, NoHints)

\* userStore.CreateContact: an error is returned to the worker.
processIncomingMessageContact(w, ok) ==
  /\ procPc[w] = "contact"
  /\ IF ok THEN Goto(w, "dedup") /\ UNCHANGED <<procConv, procNew>>
           ELSE Return(w, "errContact")
  /\ UNCHANGED <<deliveries, ingestStore>>
  /\ UNCHANGED <<outVars, queueVars, opVars>>

\* Mutant of processIncomingMessageDedup: the result of the lookup is not
\* looked at and the matcher runs for every envelope.
processIncomingMessageDedup_NoCheck(w, ok) ==
  /\ procPc[w] = "dedup"
  /\ IF ~ok THEN Return(w, "errLookup")
     ELSE Goto(w, "plus") /\ UNCHANGED <<procConv, procNew>>
  /\ UNCHANGED <<deliveries, ingestStore>>
  /\ UNCHANGED <<outVars, queueVars, opVars>>

\* Message exists by source ID? A lookup error is returned; a hit returns nil.
processIncomingMessageDedup(w, ok) ==
  /\ procPc[w] = "dedup"
  /\ IF ~ok THEN Return(w, "errLookup")
     ELSE IF messageExistsBySourceID(procEnv[w].src) > 0 THEN Return(w, "nilDuplicate")
     ELSE Goto(w, "plus") /\ UNCHANGED <<procConv, procNew>>
  /\ UNCHANGED <<deliveries, ingestStore>>
  /\ UNCHANGED <<outVars, queueVars, opVars>>

\* Mutant of processIncomingMessagePlus: the conversation of the plus-address
\* UUID is taken without comparing the sender with its contact.
processIncomingMessagePlus_NoSenderCheck(w, ok) ==
  /\ procPc[w] = "plus"
  /\ IF procEnv[w].uuid = NoConversation
     THEN Goto(w, "ref") /\ UNCHANGED <<procConv, procNew>>
     ELSE IF ~ok THEN Return(w, "errFetch")
     ELSE LET conversation == GetConversation(procEnv[w].uuid)
          IN /\ procConv' = [procConv EXCEPT ![w] = conversation.id]
             /\ Goto(w, IF conversation.id # NoConversation THEN "upload" ELSE "ref")
             /\ UNCHANGED procNew
  /\ UNCHANGED <<deliveries, ingestStore>>
  /\ UNCHANGED <<outVars, queueVars, opVars>>

\* Match by plus-addressed Reply-To: GetConversation by UUID (an error other
\* than NotFound is returned), then bind if the conversation's contact address
\* equals the sender's, case-insensitively.
processIncomingMessagePlus(w, ok) ==
  /\ procPc[w] = "plus"
  /\ IF procEnv[w].uuid = NoConversation
     THEN Goto(w, "ref") /\ UNCHANGED <<procConv, procNew>>
     ELSE IF ~ok THEN Return(w, "errFetch")
     ELSE LET conversation == GetConversation(procEnv[w].uuid)
              match == EqualFold(conversation.email, procEnv[w].email)
          IN /\ procConv' = [procConv EXCEPT ![w] = IF match THEN conversation.id ELSE @]
             /\ Goto(w, IF match /\ conversation.id # NoConversation THEN "upload" ELSE "ref")
             /\ UNCHANGED procNew
  /\ UNCHANGED <<deliveries, ingestStore>>
  /\ UNCHANGED <<outVars, queueVars, opVars>>

\* Mutant of processIncomingMessageRef: the conversation of the reference
\* number is taken without comparing the sender with its contact.
processIncomingMessageRef_NoSenderCheck(w, refNum, ok) ==
  /\ procPc[w] = "ref"
  /\ IF refNum = NoConversation
     THEN Goto(w, "find") /\ UNCHANGED <<procConv, procNew>>
     ELSE IF ~ok THEN Return(w, "errFetch")
     ELSE LET conversation == GetConversation(refNum)
          IN /\ procConv' = [procConv EXCEPT ![w] = conversation.id]
             /\ Goto(w, IF conversation.id # NoConversation THEN "upload" ELSE "find")
             /\ UNCHANGED procNew
  /\ UNCHANGED <<deliveries, ingestStore>>
  /\ UNCHANGED <<outVars, queueVars, opVars>>

\* Match by the reference number in the subject: GetConversation by reference
\* number, then bind if the contact address is set and equals the sender's.
processIncomingMessageRef(w, refNum, ok) ==
  /\ procPc[w] = "ref"
  /\ IF refNum = NoConversation
     THEN Goto(w, "find") /\ UNCHANGED <<procConv, procNew>>
     ELSE IF ~ok THEN Return(w, "errFetch")
     ELSE LET conversation == GetConversation(refNum)
              match == conversation.email # "" /\ EqualFold(conversation.email, procEnv[w].email)
          IN /\ procConv' = [procConv EXCEPT ![w] = IF match THEN conversation.id ELSE @]
             /\ Goto(w, IF match THEN "upload" ELSE "find")
             /\ UNCHANGED procNew
  /\ UNCHANGED <<deliveries, ingestStore>>
  /\ UNCHANGED <<outVars, queueVars, opVars>>

\* Mutant of findOrCreateConversationFind: the header chain is not looked up
\* and a conversation is created for every envelope that gets here.
findOrCreateConversationFind_AlwaysCreate(w, inReplyTo, ok) ==
  /\ procPc[w] = "find"
  /\ IF ~ok THEN Return(w, "errFind")
     ELSE Goto(w, "create") /\ UNCHANGED <<procConv, procNew>>
  /\ UNCHANGED <<deliveries, ingestStore>>
  /\ UNCHANGED <<outVars, queueVars, opVars>>

\* findOrCreateConversation, the lookup: a message whose source id is the
\* envelope's In-Reply-To or among its References binds the envelope to that
\* message's conversation; a lookup error is returned.
findOrCreateConversationFind(w, inReplyTo, ok) ==
  /\ procPc[w] = "find"
  /\ IF ~ok THEN Return(w, "errFind")
     ELSE LET conversationID == messageExistsBySourceID(inReplyTo)
          IN /\ procConv' = [procConv EXCEPT ![w] = conversationID]
             /\ Goto(w, IF conversationID = NoConversation THEN "create" ELSE "upload")
             /\ UNCHANGED procNew
  /\ UNCHANGED <<deliveries, ingestStore>>
  /\ UNCHANGED <<outVars, queueVars, opVars>>

\* Mutant of findOrCreateConversationCreate: the conversation is created
\* Resolved.
findOrCreateConversationCreate_Resolved(w, ok) ==
  /\ procPc[w] = "create"
  /\ IF ~ok
     THEN Return(w, "errCreate") /\ UNCHANGED ingestStore
     ELSE /\ convContact' = [convContact EXCEPT ![nextConvID] = procEnv[w].email]
          /\ convStatus' = [convStatus EXCEPT ![nextConvID] = "Resolved"]
          /\ nextConvID' = nextConvID + 1
          /\ procConv' = [procConv EXCEPT ![w] = nextConvID]
          /\ procNew' = [procNew EXCEPT ![w] = TRUE]
          /\ Goto(w, "upload")
          /\ UNCHANGED <<srcConv, srcStatus, statusActivities>>
  /\ UNCHANGED deliveries
  /\ UNCHANGED <<outVars, queueVars, opVars>>

\* findOrCreateConversation, the creation: CreateConversation inserts an Open
\* conversation of the envelope's contact; an error is returned.
findOrCreateConversationCreate(w, ok) ==
  /\ procPc[w] = "create"
  /\ IF ~ok
     THEN Return(w, "errCreate") /\ UNCHANGED ingestStore
     ELSE /\ convContact' = [convContact EXCEPT ![nextConvID] = procEnv[w].email]
          /\ convStatus' = [convStatus EXCEPT ![nextConvID] = "Open"]
          /\ nextConvID' = nextConvID + 1
          /\ procConv' = [procConv EXCEPT ![w] = nextConvID]
          /\ procNew' = [procNew EXCEPT ![w] = TRUE]
          /\ Goto(w, "upload")
          /\ UNCHANGED <<srcConv, srcStatus, statusActivities>>
  /\ UNCHANGED deliveries
  /\ UNCHANGED <<outVars, queueVars, opVars>>

\* Mutant of processIncomingMessageUpload: a failed upload deletes the
\* conversation whether or not this execution created it.
processIncomingMessageUpload_AlwaysDelete(w, ok, deleteOk) ==
  /\ procPc[w] = "upload"
  /\ IF ok
     THEN Goto(w, "insert") /\ UNCHANGED <<procConv, procNew, ingestStore>>
     ELSE /\ Return(w, IF ~deleteOk THEN "errDelete" ELSE "errUpload")
          /\ IF deleteOk
             THEN /\ convContact' = [convContact EXCEPT ![procConv[w]] = ""]
                  /\ convStatus' = [convStatus EXCEPT ![procConv[w]] = "None"]
                  /\ UNCHANGED <<srcConv, srcStatus, statusActivities, nextConvID>>
             ELSE UNCHANGED ingestStore
  /\ UNCHANGED deliveries
  /\ UNCHANGED <<outVars, queueVars, opVars>>

\* uploadMessageAttachments; when it fails and the conversation was created by
\* this execution, DeleteConversation removes it; the error is returned.
processIncomingMessageUpload(w, ok, deleteOk) ==
  /\ procPc[w] = "upload"
  /\ IF ok
     THEN Goto(w, "insert") /\ UNCHANGED <<procConv, procNew, ingestStore>>
     ELSE /\ Return(w, IF procNew[w] /\ ~deleteOk THEN "errDelete" ELSE "errUpload")
          /\ IF procNew[w] /\ deleteOk
             THEN /\ convContact' = [convContact EXCEPT ![procConv[w]] = ""]
                  /\ convStatus' = [convStatus EXCEPT ![procConv[w]] = "None"]
                  /\ UNCHANGED <<srcConv, srcStatus, statusActivities, nextConvID>>
             ELSE UNCHANGED ingestStore
  /\ UNCHANGED deliveries
  /\ UNCHANGED <<outVars, queueVars, opVars>>

\* InsertMessage: the status the inserted row gets; a private message is
\* always stored as Sent.
InsertMessage(status, private) ==
  IF private THEN MessageStatusSent ELSE status

\* InsertMessage: the row is inserted unless the store rejects it, which it
\* does for a source id that a message already carries; the error is returned.
processIncomingMessageInsert(w, ok) ==
  /\ procPc[w] = "insert"
  /\ IF ok /\ srcConv[procEnv[w].src] = NoConversation
     THEN /\ srcConv' = [srcConv EXCEPT ![procEnv[w].src] = procConv[w]]
          /\ srcStatus' = [srcStatus EXCEPT ![procEnv[w].src] =
                             InsertMessage(MessageStatusReceived, FALSE)]
          /\ Goto(w, "post")
          /\ UNCHANGED <<procConv, procNew>>
     ELSE Return(w, "errInsert") /\ UNCHANGED <<srcConv, srcStatus>>
  /\ UNCHANGED <<convContact, convStatus, statusActivities, nextConvID, deliveries>>
  /\ UNCHANGED <<outVars, queueVars, opVars>>

\* Mutant of ReOpenConversation: every conversation that is not Open is
\* reopened.
ReOpenConversation_AnyStatus(status) ==
  IF status # "None" THEN "Open" ELSE status

\* The re-open-conversation statement: the status it leaves on a conversation
\* of the given status.
ReOpenConversation(status) ==
  IF status \in {"Snoozed", "Resolved", "Closed"} THEN "Open" ELSE status

\* Mutant of processIncomingMessagePost: the conversation is never reopened.
processIncomingMessagePost_NoReopen(w, ok, recorded) ==
  /\ procPc[w] = "post"
  /\ Return(w, IF procNew[w] THEN "nilNew" ELSE "nilReply")
  /\ UNCHANGED <<ingestStore, deliveries>>
  /\ UNCHANGED <<outVars, queueVars, opVars>>

\* After the insert: for a new conversation the creation hooks run and nil is
\* returned. Otherwise ReOpenConversation runs unless GetSystemUser fails: its
\* statement sets the status, and when a row changed RecordStatusChange records
\* the activity. A failure of any of the three is logged ("nilReplyLogged")
\* and nil is returned all the same.
processIncomingMessagePost(w, ok, recorded) ==
  /\ procPc[w] = "post"
  /\ IF procNew[w]
     THEN Return(w, "nilNew") /\ UNCHANGED <<convStatus, statusActivities>>
     ELSE LET status == IF ok THEN ReOpenConversation(convStatus[procConv[w]])
                        ELSE convStatus[procConv[w]]
              count == IF status # convStatus[procConv[w]] THEN 1 ELSE 0
          IN /\ Return(w, IF ~ok \/ (count > 0 /\ ~recorded) THEN "nilReplyLogged" ELSE "nilReply")
             /\ convStatus' = [convStatus EXCEPT ![procConv[w]] = status]
             /\ statusActivities' = [statusActivities EXCEPT ![procConv[w]] =
                                       IF count > 0 /\ recorded THEN @ + 1 ELSE @]
  /\ UNCHANGED <<convContact, srcConv, srcStatus, nextConvID, deliveries>>
  /\ UNCHANGED <<outVars, queueVars, opVars>>

NextIngest ==
  \/ \E w \in Processors, in \in Envelopes : processIncomingMessageCall(w, in)
  \/ \E w \in Processors, ok \in BOOLEAN : processIncomingMessageContact(w, ok)
  \/ \E w \in Processors, ok \in BOOLEAN : processIncomingMessageDedup(w, ok)
  \/ \E w \in Processors, ok \in BOOLEAN : processIncomingMessagePlus(w, ok)
  \/ \E w \in Processors, r \in RefNums, ok \in BOOLEAN : processIncomingMessageRef(w, r, ok)
  \/ \E w \in Processors, s \in InReplyTos, ok \in BOOLEAN : findOrCreateConversationFind(w, s, ok)
  \/ \E w \in Processors, ok \in BOOLEAN : findOrCreateConversationCreate(w, ok)
  \/ \E w \in Processors, ok \in BOOLEAN, d \in BOOLEAN : processIncomingMessageUpload(w, ok, d)
  \/ \E w \in Processors, ok \in BOOLEAN : processIncomingMessageInsert(w, ok)
  \/ \E w \in Processors, ok \in BOOLEAN, r \in BOOLEAN : processIncomingMessagePost(w, ok, r)

SpecIngest == Init /\ [][NextIngest]_vars

(***************************************************************************)
(* Properties of processIncomingMessage (checked under SpecIngest).        *)
(***************************************************************************)
\* The dedup check of w's execution is still ahead and a persisted message
\* already carries the envelope's source id.
Duplicate(w) ==
  /\ procPc[w] \in {"contact", "dedup"}
  /\ messageExistsBySourceID(procEnv[w].src) # NoConversation

\* The matcher of w's execution has bound the envelope to a conversation.
Matched(w) == procPc[w] \in {"upload", "insert", "post"}

\* The envelope of w carries a plus-address UUID that resolves to a conversation.
PlusResolves(w) ==
  /\ Processing(w)
  /\ procEnv[w].uuid # NoConversation
  /\ GetConversation(procEnv[w].uuid).id # NoConversation

\* The sender's address equals, case-insensitively, the contact address of the
\* conversation the plus-address UUID resolves to.
SenderMatches(w) == EqualFold(GetConversation(procEnv[w].uuid).email, procEnv[w].email)

\* C2 (the claim as stated): exactly-once creation under concurrent delivery.
\* Two executions of processIncomingMessage that overlap on envelopes with
\* the same source id do not both create a conversation, and no source id is
\* carried by more than one persisted message (srcConv holds one conversation
\* per source id: the store rejects a second insert).
C2_ExactlyOnceCreation ==
  \A w1, w2 \in Processors :
    (w1 # w2 /\ Processing(w1) /\ Processing(w2) /\ procEnv[w1].src = procEnv[w2].src)
      => ~(procNew[w1] /\ procNew[w2])

\* C3 (the claim as stated): for an envelope whose source id a persisted
\* message already carries, processIncomingMessage returns nil and leaves the
\* conversations and messages as they were.
C3_DedupReturnsSuccess ==
  [][\A w \in Processors :
       (Duplicate(w) /\ procPc'[w] # procPc[w])
         => /\ UNCHANGED ingestStore
            /\ procPc'[w] = "recv" => procResult'[w] = "nilDuplicate"]_vars

\* C3 (amended): for an envelope whose source id a persisted message already
\* carries, processIncomingMessage creates no conversation, inserts no message
\* and changes no conversation, and it returns at the dedup check at the
\* latest: nil when the contact upsert and the source-id lookup succeed, the
\* error of the one that fails otherwise.
C3_DedupNoOp ==
  [][\A w \in Processors :
       (Duplicate(w) /\ procPc'[w] # procPc[w])
         => /\ UNCHANGED ingestStore
            /\ procPc'[w] \in {"dedup", "recv"}
            /\ procPc[w] = "dedup" => procPc'[w] = "recv"
            /\ procPc'[w] = "recv" => procResult'[w] \in {"nilDuplicate", "errContact", "errLookup"}
            /\ processIncomingMessageContact(w, TRUE) => procPc'[w] = "dedup"
            /\ processIncomingMessageDedup(w, TRUE) => procResult'[w] = "nilDuplicate"]_vars

\* C3 witness: an execution has returned at the dedup check with nil, and the
\* store is as it was at the start.
C3_Witness ==
  /\ \E w \in Processors : procResult[w] = "nilDuplicate"
  /\ nextConvID = 2
  /\ convStatus[1] = "Resolved"
  /\ \A s \in SourceIDs \ {1} : srcConv[s] = NoConversation

\* C10 (the claim as stated): when the plus-address UUID resolves to
\* conversation C, the envelope is bound to C and no conversation is created
\* if the sender matches C's contact case-insensitively, and a new
\* conversation is created if it does not.
C10_PlusAddressBinding ==
  \A w \in Processors :
    (Matched(w) /\ PlusResolves(w))
      => IF SenderMatches(w)
         THEN procConv[w] = procEnv[w].uuid /\ ~procNew[w]
         ELSE procNew[w]

\* C10 (amended): when the plus-address UUID resolves to conversation C and
\* the sender matches C's contact case-insensitively, the envelope is bound
\* to C and no conversation is created. When the sender does not match, the
\* hint is ignored: the plus-address rule binds nothing and changes nothing,
\* the subject reference number and the header chain are tried next and bind
\* the envelope to an existing conversation when they match, and a
\* conversation is created only after the header-chain lookup found nothing.
C10_PlusAddressOrFallThrough ==
  /\ [](\A w \in Processors :
          (Matched(w) /\ PlusResolves(w) /\ SenderMatches(w))
            => procConv[w] = procEnv[w].uuid /\ ~procNew[w])
  /\ [][\A w \in Processors :
          (PlusResolves(w) /\ ~SenderMatches(w) /\ procPc'[w] # procPc[w])
            => /\ procPc[w] = "plus"
                 => /\ procConv'[w] = NoConversation
                    /\ procPc'[w] \in {"ref", "recv"}
                    /\ UNCHANGED ingestStore
               /\ \A r \in ConvIds :
                    (/\ processIncomingMessageRef(w, r, TRUE)
                     /\ GetConversation(r).email # ""
                     /\ EqualFold(GetConversation(r).email, procEnv[w].email))
                      => procConv'[w] = r /\ ~procNew'[w] /\ procPc'[w] = "upload"
               /\ \A s \in SourceIDs :
                    (findOrCreateConversationFind(w, s, TRUE) /\ messageExistsBySourceID(s) # NoConversation)
                      => procConv'[w] = messageExistsBySourceID(s) /\ ~procNew'[w] /\ procPc'[w] = "upload"
               /\ (procNew'[w] /\ ~procNew[w]) => procPc[w] = "create"]_vars

\* C10 witness: one envelope is bound to the conversation of its plus-address
\* UUID although its sender's address differs in case from the contact's, and
\* another, whose sender does not match, has a conversation of its own.
C10_Witness ==
  \E w1, w2 \in Processors :
    /\ Matched(w1) /\ PlusResolves(w1)
    /\ procEnv[w1].email # GetConversation(procEnv[w1].uuid).email
    /\ procConv[w1] = procEnv[w1].uuid
    /\ Matched(w2) /\ PlusResolves(w2) /\ ~SenderMatches(w2)
    /\ procNew[w2]

(***************************************************************************)
(* One ingestion worker taking envelopes one after the other, each with    *)
(* its subject's reference number and its In-Reply-To known from the call, *)
(* against a store with two conversations.                                 *)
(***************************************************************************)
\* The worker that runs.
Matcher == "w1"

NextMatch ==
  \/ \E in \in Envelopes, h \in Hints :
       deliveries < MaxMatchDeliveries /\ processIncomingMessageCallWith(Matcher, in, h)
  \/ \E ok \in BOOLEAN : processIncomingMessageContact(Matcher, ok)
  \/ \E ok \in BOOLEAN : processIncomingMessageDedup(Matcher, ok)
  \/ \E ok \in BOOLEAN : processIncomingMessagePlus(Matcher, ok)
  \/ \E ok \in BOOLEAN : processIncomingMessageRef(Matcher, procHints[Matcher].ref, ok)
  \/ \E ok \in BOOLEAN : findOrCreateConversationFind(Matcher, procHints[Matcher].irt, ok)
  \/ \E ok \in BOOLEAN : findOrCreateConversationCreate(Matcher, ok)
  \/ \E ok \in BOOLEAN, d \in BOOLEAN : processIncomingMessageUpload(Matcher, ok, d)
  \/ \E ok \in BOOLEAN : processIncomingMessageInsert(Matcher, ok)
  \/ \E ok \in BOOLEAN, r \in BOOLEAN : processIncomingMessagePost(Matcher, ok, r)

SpecMatch == InitMatch /\ [][NextMatch]_vars

(***************************************************************************)
(* Properties of the matcher (checked under SpecMatch).                    *)
(***************************************************************************)
\* The rules of the matcher are still ahead or under way in w's execution.
Matching(w) == procPc[w] \in {"plus", "ref", "find", "create"}

\* What each rule finds for w's envelope in the store as it is.
PlusMatch(w) ==
  /\ procEnv[w].uuid # NoConversation
  /\ GetConversation(procEnv[w].uuid).id # NoConversation
  /\ EqualFold(GetConversation(procEnv[w].uuid).email, procEnv[w].email)

RefMatch(w) ==
  /\ procHints[w].ref # NoConversation
  /\ GetConversation(procHints[w].ref).email # ""
  /\ EqualFold(GetConversation(procHints[w].ref).email, procEnv[w].email)

ChainMatch(w) == messageExistsBySourceID(procHints[w].irt) # NoConversation

\* C11: matcher priority. An envelope whose source id a message carries gets
\* no conversation at all (the execution returns at the dedup check). For any
\* other, when the matcher ends it has bound the envelope to the conversation
\* of the plus-address UUID if that rule matches, else to the one of the
\* subject's reference number if that rule matches, else to the one of the
\* header chain if that matches, whatever the later rules would find; and it
\* has created a conversation only if none of the three matches.
C11_MatcherPriority ==
  /\ [](\A w \in Processors :
          (Matching(w) \/ procPc[w] = "upload") => messageExistsBySourceID(procEnv[w].src) = NoConversation)
  /\ [][\A w \in Processors :
          (Matching(w) /\ procPc'[w] = "upload")
            => IF PlusMatch(w)
               THEN procConv'[w] = procEnv[w].uuid /\ ~procNew'[w] /\ procPc[w] = "plus"
               ELSE IF RefMatch(w)
               THEN procConv'[w] = procHints[w].ref /\ ~procNew'[w] /\ procPc[w] = "ref"
               ELSE IF ChainMatch(w)
               THEN procConv'[w] = messageExistsBySourceID(procHints[w].irt) /\ ~procNew'[w]
               ELSE procNew'[w] /\ procConv'[w] = nextConvID /\ nextConvID' = nextConvID + 1]_vars
  /\ [][nextConvID' # nextConvID
          => \E w \in Processors : ~PlusMatch(w) /\ ~RefMatch(w) /\ ~ChainMatch(w) /\ procNew'[w]]_vars

\* C11 witness: the envelope is bound to the conversation of its plus-address
\* UUID while its subject names another conversation of the same contact and
\* its In-Reply-To names a persisted message.
C11_Witness ==
  \E w \in Processors :
    /\ procPc[w] = "upload"
    /\ PlusMatch(w) /\ RefMatch(w) /\ ChainMatch(w)
    /\ procHints[w].ref # procEnv[w].uuid
    /\ procConv[w] = procEnv[w].uuid
    /\ ~procNew[w]

\* C12: spoof protection. The plus-address rule and the reference-number rule
\* bind an envelope only to the conversation their hint names and only when
\* that conversation's contact address equals the sender's, case-insensitively;
\* when the hint names a conversation of another contact, the rule binds
\* nothing, changes nothing, and the next rule runs.
C12_SpoofProtection ==
  [][\A w \in Processors :
       (procPc[w] \in {"plus", "ref"} /\ procPc'[w] # procPc[w])
         => /\ procConv'[w] # NoConversation
                 => /\ EqualFold(convContact[procConv'[w]], procEnv[w].email)
                    /\ procConv'[w] = IF procPc[w] = "plus" THEN procEnv[w].uuid ELSE procHints[w].ref
            /\ (procPc[w] = "plus" /\ procEnv[w].uuid # NoConversation /\ ~PlusMatch(w))
                 => procConv'[w] = NoConversation /\ procPc'[w] \in {"ref", "recv"}
            /\ (procPc[w] = "ref" /\ procHints[w].ref # NoConversation /\ ~RefMatch(w))
                 => procConv'[w] = NoConversation /\ procPc'[w] \in {"find", "recv"}
            /\ UNCHANGED ingestStore]_vars

\* C12 witness: both hints named a conversation of another contact, neither
\* rule has bound the envelope, and the header-chain lookup is next.
C12_Witness ==
  \E w \in Processors :
    /\ procPc[w] = "find"
    /\ procEnv[w].uuid # NoConversation /\ ~PlusMatch(w)
    /\ GetConversation(procHints[w].ref).id # NoConversation /\ ~RefMatch(w)
    /\ procConv[w] = NoConversation

\* The execution of w bound its envelope through the header chain: no hint
\* matched, the In-Reply-To names a persisted message, and no conversation was
\* created.
ChainBound(w) ==
  /\ procPc[w] \in {"upload", "insert", "post"}
  /\ ~PlusMatch(w) /\ ~RefMatch(w)
  /\ procHints[w].irt # procEnv[w].src
  /\ ChainMatch(w)

\* The binding of scenario B: the header-chain lookup of an envelope whose In-Reply-To
\* names a persisted message binds it to that message's conversation and
\* creates none, and the inserted message belongs to that conversation.
ChainBinding ==
  /\ [][\A w \in Processors :
          (procPc[w] = "find" /\ ChainMatch(w) /\ procPc'[w] # "recv")
            => /\ procConv'[w] = messageExistsBySourceID(procHints[w].irt)
               /\ ~procNew'[w]
               /\ procPc'[w] = "upload"
               /\ UNCHANGED ingestStore]_vars
  /\ [][\A w \in Processors :
          ChainBound(w) => nextConvID' = nextConvID]_vars
  /\ [](\A w \in Processors :
          ChainBound(w)
            => /\ procConv[w] = messageExistsBySourceID(procHints[w].irt)
               /\ ~procNew[w]
               /\ procPc[w] = "post" => srcConv[procEnv[w].src] = procConv[w])

\* C13 as stated: scenario B. An envelope with a new source id and no matching
\* hint whose In-Reply-To names a persisted message is bound to that message's
\* conversation, no conversation is created, and a conversation that was
\* Resolved is Open when processing returns.
C13_ScenarioB ==
  /\ ChainBinding
  /\ [][\A w \in Processors :
          (ChainBound(w) /\ procPc[w] = "post" /\ procPc'[w] = "recv"
             /\ convStatus[procConv[w]] = "Resolved")
            => convStatus'[procConv[w]] = "Open"]_vars

\* C13 amended: the same binding; the Resolved conversation is Open when
\* processing returns unless fetching the system user or the reopening
\* statement failed, which is logged: then it is still Resolved, and nil is
\* returned in both cases.
C13_ScenarioBReopenLogged ==
  /\ ChainBinding
  /\ [][\A w \in Processors :
          (ChainBound(w) /\ procPc[w] = "post" /\ procPc'[w] = "recv"
             /\ convStatus[procConv[w]] = "Resolved")
            => /\ procResult'[w] \in {"nilReply", "nilReplyLogged"}
               /\ procResult'[w] = "nilReply" => convStatus'[procConv[w]] = "Open"
               /\ convStatus'[procConv[w]] \in {"Open", "Resolved"}
               /\ convStatus'[procConv[w]] = "Resolved" => procResult'[w] = "nilReplyLogged"]_vars

\* C13 witness: a message bound through the header chain has been inserted
\* into the Resolved conversation of the message its In-Reply-To names.
C13_Witness ==
  \E w \in Processors :
    /\ ChainBound(w) /\ procPc[w] = "post"
    /\ srcConv[procEnv[w].src] = 1
    /\ convStatus[1] = "Resolved"
    /\ nextConvID = 3

\* The source ids of the messages of conversation c.
MessagesOf(c) == {s \in SourceIDs : srcConv[s] = c}

ReturnsReply(w) ==
  procPc[w] = "post" /\ ~procNew[w]

\* C15 as stated: automatic reopen. A message inserted into an existing
\* conversation moves it to Open exactly when its status was neither Open,
\* Spam nor Trashed; a Spam or Trashed conversation keeps its status, and for
\* an Open one no status-change activity is recorded.
C15_AutomaticReopen ==
  [][\A w \in Processors :
       (ReturnsReply(w) /\ procPc'[w] = "recv")
         => LET c == procConv[w]
            IN /\ (convStatus[c] # "Open" /\ convStatus'[c] = "Open")
                    <=> convStatus[c] \notin {"Open", "Spam", "Trashed"}
               /\ convStatus[c] \in {"Spam", "Trashed"} => convStatus'[c] = convStatus[c]
               /\ convStatus[c] = "Open" => statusActivities'[c] = statusActivities[c]]_vars

\* C15 amended: the conversation moves to Open only when its status was
\* neither Open, Spam nor Trashed, and it does whenever no error is logged;
\* when fetching the system user or the statement fails the status is kept.
\* A Spam or Trashed conversation keeps its status, and an activity is
\* recorded only for a conversation that was moved, at most once.
C15_AutomaticReopenUnlessLogged ==
  [][\A w \in Processors :
       (ReturnsReply(w) /\ procPc'[w] = "recv")
         => LET c == procConv[w]
            IN /\ convStatus'[c] # convStatus[c]
                    => convStatus[c] \notin {"Open", "Spam", "Trashed"} /\ convStatus'[c] = "Open"
               /\ (convStatus[c] \notin {"Open", "Spam", "Trashed"} /\ procResult'[w] = "nilReply")
                    => convStatus'[c] = "Open" /\ statusActivities'[c] = statusActivities[c] + 1
               /\ convStatus[c] \in {"Spam", "Trashed"} => convStatus'[c] = convStatus[c]
               /\ statusActivities'[c] # statusActivities[c]
                    => /\ convStatus'[c] # convStatus[c]
                       /\ statusActivities'[c] = statusActivities[c] + 1
               /\ \A d \in ConvIds \ {c} :
                    convStatus'[d] = convStatus[d] /\ statusActivities'[d] = statusActivities[d]]_vars

\* C15 witness: processing returned after reopening the conversation of the
\* persisted message, with the activity recorded and no conversation created.
C15_Witness ==
  /\ procResult[Matcher] = "nilReply"
  /\ convStatus[1] = "Open"
  /\ statusActivities[1] = 1
  /\ MessagesOf(1) = SourceIDs
  /\ nextConvID = 3

\* The upload of w's execution fails: the execution returns from the upload
\* step.
UploadFails(w) ==
  procPc[w] = "upload" /\ procPc'[w] = "recv"

\* What a failed upload does to a conversation that existed before the
\* execution: it and every persisted message stay as they are, and the
\* envelope's message is not persisted.
SurvivesUploadFailure(w) ==
  /\ procResult'[w] = "errUpload"
  /\ convStatus[procConv[w]] # "None"
  /\ UNCHANGED ingestStore
  /\ srcConv'[procEnv[w].src] = NoConversation

\* C16 as stated: attachment-failure compensation. When the upload fails for
\* the first message of a conversation the execution created, the conversation
\* is deleted and an error is returned; for a message bound to a conversation
\* that existed before, the conversation and its messages stay and only the
\* new message is not persisted.
C16_AttachmentFailureCompensation ==
  [][\A w \in Processors :
       UploadFails(w)
         => IF procNew[w]
            THEN /\ procResult'[w] \in {"errUpload", "errDelete"}
                 /\ convStatus'[procConv[w]] = "None"
            ELSE SurvivesUploadFailure(w)]_vars

\* C16 amended: the created conversation is deleted unless DeleteConversation
\* itself fails; then that error is returned and the conversation stays, with
\* no message. The rest is as stated.
C16_CompensationUnlessDeleteFails ==
  [][\A w \in Processors :
       UploadFails(w)
         => IF procNew[w]
            THEN \/ /\ procResult'[w] = "errUpload"
                    /\ convStatus'[procConv[w]] = "None"
                    /\ convContact'[procConv[w]] = ""
                    /\ \A c \in ConvIds \ {procConv[w]} :
                         convStatus'[c] = convStatus[c] /\ convContact'[c] = convContact[c]
                    /\ UNCHANGED <<srcConv, srcStatus, nextConvID>>
                 \/ /\ procResult'[w] = "errDelete"
                    /\ UNCHANGED ingestStore
                    /\ convStatus[procConv[w]] = "Open"
                    /\ MessagesOf(procConv[w]) = {}
            ELSE SurvivesUploadFailure(w)]_vars

\* C16 witness: the upload failed for the message of conversation 3, which
\* the execution had created and which is deleted; the earlier conversations
\* and the persisted message are as they were.
C16_Witness ==
  /\ procResult[Matcher] = "errUpload"
  /\ nextConvID = 4
  /\ convStatus[3] = "None"
  /\ convStatus[2] = "Open" /\ convStatus[1] # "None"
  /\ MessagesOf(1) = {1}
  /\ srcConv[2] = NoConversation

\* C35 (the claim as stated): no orphaned empty conversation. When an
\* execution of processIncomingMessage that created a conversation returns,
\* that conversation holds a message or is deleted.
C35_NoOrphanedConversation ==
  [][\A w \in Processors :
       (procNew[w] /\ procPc[w] # "recv" /\ procPc'[w] = "recv")
         => \/ convStatus'[procConv[w]] = "None"
            \/ \E s \in SourceIDs : srcConv'[s] = procConv[w]]_vars

(***************************************************************************)
(* The threading headers sendOutgoingMessage computes (SpecThread).        *)
(***************************************************************************)
\* Mutant of GetMessageSourceIDs: the limit is not applied.
GetMessageSourceIDs_NoLimit(conv, limit) ==
  [i \in 1..Len(conv) |-> conv[Len(conv) - i + 1]]

\* The newest limit source ids of a conversation, newest first.
GetMessageSourceIDs(conv, limit) ==
  [i \in 1..Min(limit, Len(conv)) |-> conv[Len(conv) - i + 1]]

\* slices.Reverse.
Reverse(s) ==
  [i \in 1..Len(s) |-> s[Len(s) - i + 1]]

\* Mutant of RemoveItemByValue: nothing is removed.
RemoveItemByValue_Keep(s, v) ==
  s

\* stringutil.RemoveItemByValue: the list without the items equal to v.
RemoveItemByValue(s, v) ==
  SelectSeq(s, LAMBDA x : x # v)

\* QueueReply has inserted the message, with a fresh source id, after the
\* messages the conversation already held.
InitThread ==
  /\ \E prior \in 0..MaxPrior :
       /\ threadConv = [i \in 1..(prior + 1) |-> i]
       /\ threadSelf = prior + 1
  /\ threadPc = "pending"
  /\ threadLogged = FALSE
  /\ References = <<>>
  /\ InReplyTo = NoSource

\* Another message of the conversation is inserted while the reply waits for
\* its dispatch.
InsertMessageLater ==
  /\ threadPc = "pending"
  /\ Len(threadConv) - threadSelf < MaxLater
  /\ threadConv' = Append(threadConv, Len(threadConv) + 1)
  /\ UNCHANGED <<threadSelf, threadPc, threadLogged, References, InReplyTo>>
  /\ UNCHANGED <<outVars, queueVars, ingestVars, insertVars, statusVars, moreOpVars>>

\* sendOutgoingMessage, the threading headers: the newest source ids are
\* fetched (an error is logged and leaves the list empty), reversed, the
\* message's own id is removed, and In-Reply-To is the last of what is left.
sendOutgoingMessageReferences(ok) ==
  /\ threadPc = "pending"
  /\ LET fetched == IF ok THEN GetMessageSourceIDs(threadConv, ReferencesLimit) ELSE <<>>
         references == RemoveItemByValue(Reverse(fetched), threadSelf)
     IN /\ References' = references
        /\ InReplyTo' = IF Len(references) > 0 THEN references[Len(references)] ELSE NoSource
  /\ threadLogged' = ~ok
  /\ threadPc' = "sent"
  /\ UNCHANGED <<threadConv, threadSelf>>
  /\ UNCHANGED <<outVars, queueVars, ingestVars, insertVars, statusVars, moreOpVars>>

NextThread ==
  \/ InsertMessageLater
  \/ \E ok \in BOOLEAN : sendOutgoingMessageReferences(ok)

InitThreading == InitOut /\ InitQueue /\ InitIngest /\ InitThread /\ InitInsertIdle /\ InitStatus /\ InitMoreOps

SpecThread == InitThreading /\ [][NextThread]_vars

(***************************************************************************)
(* Properties of the threading headers (checked under SpecThread).         *)
(***************************************************************************)
\* The source ids of the messages inserted before the reply, and of all the
\* messages of the conversation but the reply.
PriorIDs == {threadConv[i] : i \in 1..(threadSelf - 1)}
OtherIDs == Range(threadConv) \ {threadSelf}

\* The source ids the fetch returns: the ReferencesLimit newest of the
\* conversation.
Newest == {threadConv[i] : i \in (Len(threadConv) - ReferencesLimit + 1)..Len(threadConv)
                                   \cap 1..Len(threadConv)}

\* References lists source ids from the oldest to the newest.
OldestFirst ==
  \A i, j \in 1..Len(References) : i < j => References[i] < References[j]

\* In-Reply-To is the last entry of References, or unset when there is none.
InReplyToIsLast ==
  InReplyTo = IF Len(References) > 0 THEN References[Len(References)] ELSE NoSource

\* C17 as stated: the References window. For a reply in a conversation with
\* at least 20 prior messages, References holds exactly the 20 most recent
\* prior source ids, oldest first, and In-Reply-To is its last entry.
C17_ReferencesWindow ==
  (threadPc = "sent" /\ Cardinality(PriorIDs) >= ReferencesLimit)
    => /\ Len(References) = ReferencesLimit
       /\ Range(References) = {s \in PriorIDs : s >= threadSelf - ReferencesLimit}
       /\ OldestFirst
       /\ InReplyToIsLast

\* C17 amended: when the fetch succeeds, References holds the source ids
\* other than the reply's own among the 20 newest of the conversation, oldest
\* first: 19 ids when the reply is among those 20, and never more than 20.
\* In-Reply-To is its last entry. When the fetch fails, the error is logged,
\* References is empty and In-Reply-To unset.
C17_ReferencesWindowOfNewest ==
  (threadPc = "sent" /\ Cardinality(PriorIDs) >= ReferencesLimit)
    => IF threadLogged
       THEN References = <<>> /\ InReplyTo = NoSource
       ELSE /\ Range(References) = Newest \ {threadSelf}
            /\ Len(References) = Cardinality(Newest \ {threadSelf})
            /\ threadSelf \in Newest => Len(References) = ReferencesLimit - 1
            /\ Len(References) <= ReferencesLimit
            /\ OldestFirst
            /\ InReplyToIsLast /\ InReplyTo # NoSource

\* C17 witness: the reply is the newest of 21 messages and was given the 19
\* source ids before it that the window of 20 holds.
C17_Witness ==
  /\ threadPc = "sent" /\ ~threadLogged
  /\ Len(threadConv) = ReferencesLimit + 1 /\ threadSelf = ReferencesLimit + 1
  /\ Len(References) = ReferencesLimit - 1
  /\ References[1] = 2
  /\ InReplyTo = ReferencesLimit

\* C18 as stated: the threading order. References never holds the reply's own
\* source id and is ordered oldest first; In-Reply-To is the source id of the
\* most recent prior message when there is one, and unset when there is none.
C18_ThreadingOrder ==
  threadPc = "sent"
    => /\ threadSelf \notin Range(References)
       /\ OldestFirst
       /\ PriorIDs # {} => InReplyTo = threadSelf - 1
       /\ PriorIDs = {} => InReplyTo = NoSource

\* C18 amended: References never holds the reply's own source id and is
\* ordered oldest first; when the fetch succeeds In-Reply-To is the source id
\* of the newest other message the conversation holds at the dispatch, were it
\* inserted before or after the reply, and is unset when there is no other
\* message; when the fetch fails it is unset.
C18_ThreadingOrderAtDispatch ==
  threadPc = "sent"
    => /\ threadSelf \notin Range(References)
       /\ OldestFirst
       /\ Range(References) \subseteq OtherIDs
       /\ IF threadLogged \/ OtherIDs = {}
          THEN InReplyTo = NoSource /\ References = <<>>
          ELSE /\ InReplyTo \in OtherIDs
               /\ \A s \in OtherIDs : s <= InReplyTo
               /\ InReplyToIsLast

\* C18 witness: a message was inserted after the reply, and the reply's
\* In-Reply-To names it.
C18_Witness ==
  /\ threadPc = "sent" /\ ~threadLogged
  /\ threadSelf = 2 /\ Len(threadConv) = 3
  /\ References = <<1, 3>>
  /\ InReplyTo = 3

(***************************************************************************)
(* The bookkeeping after a successful Send (checked under Spec).           *)
(***************************************************************************)
\* inbox.Send of w's execution returns without an error.
SendSucceeds(w) ==
  senderPc[w] = "send" /\ senderPc'[w] = "post"

\* w's execution leaves the code after the Sent status update.
Bookkeeping(w) ==
  senderPc[w] = "post" /\ senderPc'[w] = "defer"

\* C19: success bookkeeping for human senders only. After a successful Send
\* the message is Sent; for a human sender last-reply is set to the current
\* time, waiting-since is cleared and first-reply is set only when it was
\* unset; for the system user first-reply, last-reply, waiting-since and the
\* SLA event are left alone.
C19_SuccessBookkeeping ==
  [][\A w \in SenderWorkers :
       /\ SendSucceeds(w) => msgStatus'[senderMsg[w]] = MessageStatusSent
       /\ Bookkeeping(w)
            => IF msgSender[senderMsg[w]] # "system"
               THEN /\ lastReplyAt' = now
                    /\ waitingSince' = FALSE
                    /\ firstReplyAt' = IF firstReplyAt = 0 THEN now ELSE firstReplyAt
               ELSE UNCHANGED <<firstReplyAt, lastReplyAt, waitingSince, slaEvent>>]_vars

(***************************************************************************)
(* Private messages (SpecPrivate): the outbound dispatch together with     *)
(* the insertion of private notes.                                         *)
(***************************************************************************)
\* SendPrivateNote: InsertMessage of a message with the private flag set,
\* whatever status the caller put in the message.
SendPrivateNote(m, status) ==
  /\ msgStatus[m] = "None"
  /\ \A k \in Messages : k < m => msgStatus[k] # "None"
  /\ msgStatus' = [msgStatus EXCEPT ![m] = InsertMessage(status, TRUE)]
  /\ msgSender' = [msgSender EXCEPT ![m] = "agent"]
  /\ msgPrivate' = [msgPrivate EXCEPT ![m] = TRUE]
  /\ wasSent' = [wasSent EXCEPT ![m] = TRUE]
  /\ UNCHANGED <<firstReplyAt, lastReplyAt, waitingSince, slaEvent, outgoingHooks, now>>
  /\ UNCHANGED <<outgoingProcessingMessages, outgoingMessageQueue, runVars, senderVars>>
  /\ UNCHANGED <<authorized, adapterSends, retries, storeFailures>>
  /\ UNCHANGED otherVars

\* The statuses a caller of InsertMessage can put in the message.
SuppliedStatuses ==
  {MessageStatusReceived, MessageStatusPending, MessageStatusSent, MessageStatusFailed}

NextPrivate ==
  \/ NextOut
  \/ \E m \in Messages, status \in SuppliedStatuses : SendPrivateNote(m, status)

SpecPrivate == Init /\ [][NextPrivate]_vars

\* C20: private messages bypass the dispatch. A message inserted with the
\* private flag is Sent from its insertion on, whatever status was supplied:
\* it is never Pending, never among the messages the scanner picked or
\* pushed, and never in the hands of a sender worker.
C20_PrivateBypassesDispatch ==
  \A m \in Messages :
    msgPrivate[m]
      => /\ msgStatus[m] = MessageStatusSent
         /\ msgStatus[m] # MessageStatusPending
         /\ m \notin Range(runPending) /\ m \notin Range(outgoingMessageQueue)
         /\ \A w \in SenderWorkers : senderMsg[w] # m
         /\ adapterSends[m] = 0

(***************************************************************************)
(* InsertMessage, sub-step by sub-step (SpecInsert).                       *)
(***************************************************************************)
\* The sub-steps after the row is inserted, in the order of the code.
SubSteps == {"attach", "participant", "lastMessage", "broadcast", "refetch", "webhook"}

\* The call starts with a message of up to MaxMedia media.
InitInsert ==
  /\ insPc = "row"
  /\ insMedia \in 0..MaxMedia
  /\ insRow = FALSE
  /\ insRan = {}
  /\ insFailed = {}
  /\ insResult = "none"

\* A sub-step ran, with or without an error, and the next one follows.
SubStep(step, ok, next) ==
  /\ insRan' = insRan \cup {step}
  /\ insFailed' = IF ok THEN insFailed ELSE insFailed \cup {step}
  /\ insPc' = next
  /\ UNCHANGED <<insRow, insResult>>

\* m.q.InsertMessage.Get: on an error the envelope error is returned.
InsertMessageRow(ok) ==
  /\ insPc = "row"
  /\ insRow' = ok
  /\ insPc' = IF ok THEN "attach" ELSE "done"
  /\ insResult' = IF ok THEN insResult ELSE "error"
  /\ UNCHANGED <<insMedia, insRan, insFailed>>
  /\ UNCHANGED <<outVars, queueVars, ingestVars, threadVars, statusVars, moreOpVars>>

\* for _, media := range message.Media: mediaStore.Attach, its result dropped.
InsertMessageAttach(ok) ==
  /\ insPc = "attach"
  /\ IF insMedia > 0
     THEN /\ SubStep("attach", ok, "attach")
          /\ insMedia' = insMedia - 1
     ELSE /\ insPc' = "participant"
          /\ UNCHANGED <<insMedia, insRow, insRan, insFailed, insResult>>
  /\ UNCHANGED <<outVars, queueVars, ingestVars, threadVars, statusVars, moreOpVars>>

\* addConversationParticipant, its result dropped.
InsertMessageParticipant(ok) ==
  /\ insPc = "participant"
  /\ SubStep("participant", ok, "lastMessage")
  /\ UNCHANGED insMedia
  /\ UNCHANGED <<outVars, queueVars, ingestVars, threadVars, statusVars, moreOpVars>>

\* UpdateConversationLastMessage, its result dropped.
InsertMessageLastMessage(ok) ==
  /\ insPc = "lastMessage"
  /\ SubStep("lastMessage", ok, "broadcast")
  /\ UNCHANGED insMedia
  /\ UNCHANGED <<outVars, queueVars, ingestVars, threadVars, statusVars, moreOpVars>>

\* BroadcastNewMessage.
InsertMessageBroadcast ==
  /\ insPc = "broadcast"
  /\ SubStep("broadcast", TRUE, "refetch")
  /\ UNCHANGED insMedia
  /\ UNCHANGED <<outVars, queueVars, ingestVars, threadVars, statusVars, moreOpVars>>

\* Mutant of InsertMessageRefetch: an error of GetMessage is returned.
InsertMessageRefetch_Abort(ok) ==
  /\ insPc = "refetch"
  /\ insRan' = insRan \cup {"refetch"}
  /\ insFailed' = IF ok THEN insFailed ELSE insFailed \cup {"refetch"}
  /\ insPc' = IF ok THEN "webhook" ELSE "done"
  /\ insResult' = IF ok THEN insResult ELSE "error"
  /\ UNCHANGED <<insMedia, insRow>>
  /\ UNCHANGED <<outVars, queueVars, ingestVars, threadVars, statusVars, moreOpVars>>

\* GetMessage: an error is logged and the message is left as it is.
InsertMessageRefetch(ok) ==
  /\ insPc = "refetch"
  /\ SubStep("refetch", ok, "webhook")
  /\ UNCHANGED insMedia
  /\ UNCHANGED <<outVars, queueVars, ingestVars, threadVars, statusVars, moreOpVars>>

\* webhookStore.TriggerEvent, then return nil.
InsertMessageWebhook(ok) ==
  /\ insPc = "webhook"
  /\ insRan' = insRan \cup {"webhook"}
  /\ insFailed' = IF ok THEN insFailed ELSE insFailed \cup {"webhook"}
  /\ insPc' = "done"
  /\ insResult' = "nil"
  /\ UNCHANGED <<insMedia, insRow>>
  /\ UNCHANGED <<outVars, queueVars, ingestVars, threadVars, statusVars, moreOpVars>>

NextInsert ==
  \/ \E ok \in BOOLEAN : InsertMessageRow(ok)
  \/ \E ok \in BOOLEAN : InsertMessageAttach(ok)
  \/ \E ok \in BOOLEAN : InsertMessageParticipant(ok)
  \/ \E ok \in BOOLEAN : InsertMessageLastMessage(ok)
  \/ InsertMessageBroadcast
  \/ \E ok \in BOOLEAN : InsertMessageRefetch(ok)
  \/ \E ok \in BOOLEAN : InsertMessageWebhook(ok)

InitInserting == InitOut /\ InitQueue /\ InitIngest /\ InitThreadIdle /\ InitInsert /\ InitStatus /\ InitMoreOps

SpecInsert == InitInserting /\ [][NextInsert]_vars

\* C21: InsertMessage aborts only when the row is not persisted. When the
\* insert of the row fails an error is returned and no sub-step runs; once the
\* row is inserted every sub-step runs whatever failed before it (the media
\* attach once for each medium), and nil is returned.
C21_AbortsOnlyOnRowFailure ==
  /\ [](insResult = "error" <=> (insPc = "done" /\ ~insRow))
  /\ [](~insRow => insRan = {} /\ insFailed = {})
  /\ []((insPc = "done" /\ insRow)
          => /\ insResult = "nil"
             /\ SubSteps \ {"attach"} \subseteq insRan
             /\ insMedia = 0)
  /\ [][insPc = "attach" /\ insMedia > 0 => "attach" \in insRan' /\ insMedia' = insMedia - 1]_vars
  /\ [][(insPc \in SubSteps /\ ~(insPc = "attach" /\ insMedia = 0)) => insPc \in insRan']_vars

\* C21 witness: the row was inserted, every sub-step that can fail did, and
\* nil was returned after all of them ran.
C21_Witness ==
  /\ insPc = "done" /\ insRow /\ insResult = "nil"
  /\ insRan = SubSteps
  /\ insFailed = SubSteps \ {"broadcast"}
(***************************************************************************)
(* Shutdown: both worker pools, the scanner loop of Run, Close and the     *)
(* cancellation of the context given to Run.                               *)
(***************************************************************************)
\* Run's loop: case <-ctx.Done(): return. The select is only reached between
\* ticks.
RunExit ==
  /\ runPc = "wait"
  /\ ctxDone
  /\ runPc' = "exited"
  /\ UNCHANGED <<storeVars, outgoingProcessingMessages, outgoingMessageQueue>>
  /\ UNCHANGED <<runMessageIDs, runPending, senderVars, historyVars>>
  /\ UNCHANGED otherVars

\* m.outgoingMessageQueue <- message on the channel that Close has closed:
\* the send panics, also when it was blocked on the full buffer at the time
\* of the close. Nothing recovers the panic, so the process ends: every
\* goroutine stops where it is, a worker with the item it holds.
RunPushClosed ==
  /\ runPc = "push"
  /\ closed
  /\ runPc' = "panic"
  /\ senderPc' = [w \in SenderWorkers |->
                    IF senderPc[w] = "exited" THEN "exited" ELSE "killed"]
  /\ incomingPc' = [w \in IncomingWorkers |->
                      IF incomingPc[w] = "exited" THEN "exited" ELSE "killed"]
  /\ producerPc' = [p \in Producers |-> "killed"]
  /\ closePc' = IF closePc = "wait" THEN "killed" ELSE closePc
  /\ UNCHANGED <<storeVars, outgoingProcessingMessages, outgoingMessageQueue>>
  /\ UNCHANGED <<runMessageIDs, runPending, senderMsg, historyVars>>
  /\ UNCHANGED <<incomingMessageQueue, closed, ctxDone>>
  /\ UNCHANGED <<enqAccepted, enqFull, enqClosed, dequeued, workVars>>
  /\ UNCHANGED <<ingestVars, opVars>>

Panicked == runPc = "panic"

\* The shutdown sequence of the caller: the context is cancelled after Close
\* has closed the queues.
ShutdownCancel ==
  /\ closed
  /\ CancelCtx

\* The two pools share the closed flag, the context and the WaitGroup and
\* nothing else, so a behaviour feeds one of the two queues: replies are
\* queued while no envelope has been offered, and envelopes are offered while
\* no reply has been queued. The workers of the other pool only return.
DispatchFed == \E m \in Messages : msgStatus[m] # "None"
IngestFed == EnqueueCalls > 0 \/ \E p \in Producers : producerPc[p] # "idle"

\* One step of a goroutine of the process, or of the caller of Close.
NextShutdown ==
  \/ \E m \in Messages : ~Panicked /\ ~IngestFed /\ QueueReply(m, "agent")
  \/ \E m \in Messages : ~Panicked /\ MarkMessageAsPending(m, TRUE)
  \/ RunTick
  \/ RunQuery(TRUE)
  \/ RunStore
  \/ RunPush
  \/ RunExit
  \/ \E w \in SenderWorkers : MessageSenderWorkerRecv(w)
  \/ \E w \in SenderWorkers, o \in {"sendErr", "ok"} : sendOutgoingMessageSend(w, o, TRUE)
  \/ \E w \in SenderWorkers : sendOutgoingMessagePost(w, "ok")
  \/ \E w \in SenderWorkers : sendOutgoingMessageDefer(w)
  \/ \E w \in SenderWorkers : MessageSenderWorkerExit(w)
  \/ \E p \in Producers : ~DispatchFed /\ EnqueueIncomingLock(p)
  \/ \E p \in Producers : EnqueueIncoming(p)
  \/ \E w \in IncomingWorkers : IncomingMessageWorkerRecv(w)
  \/ \E w \in IncomingWorkers, ok \in BOOLEAN : IncomingMessageWorkerProcess(w, ok)
  \/ \E w \in IncomingWorkers : IncomingMessageWorkerExit(w)
  \/ Close
  \/ CloseReturn
  \/ ShutdownCancel
  \/ RunPushClosed

SpecShutdown == Init /\ [][NextShutdown]_vars

(***************************************************************************)
(* Properties of the worker pools and of shutdown (checked under           *)
(* SpecShutdown).                                                          *)
(***************************************************************************)
LiveIncoming == {w \in IncomingWorkers : incomingPc[w] # "exited"}
LiveSenders == {w \in SenderWorkers : senderPc[w] # "exited"}

\* C22: worker resilience. A worker returns only from its select, and only
\* when the context is cancelled or its queue is closed and empty: until
\* cancellation or closure both pools are complete. A run of
\* processIncomingMessage, with or without an error, puts the ingestion
\* worker back at its select, and an execution of sendOutgoingMessage,
\* whether it wrote Sent or Failed, puts the dispatch worker back at its
\* select after the deferred tracker Delete. The step that ends the whole
\* process (the scanner's send on the closed queue) is no step of a worker.
C22_WorkerResilience ==
  /\ []((~ctxDone /\ ~closed)
          => /\ LiveIncoming = IncomingWorkers
             /\ LiveSenders = SenderWorkers)
  /\ [][\A w \in IncomingWorkers :
          (incomingPc[w] # "exited" /\ incomingPc'[w] = "exited")
            => /\ incomingPc[w] = "recv"
               /\ ctxDone \/ (closed /\ incomingMessageQueue = <<>>)]_vars
  /\ [][\A w \in SenderWorkers :
          (senderPc[w] # "exited" /\ senderPc'[w] = "exited")
            => /\ senderPc[w] = "recv"
               /\ ctxDone \/ (closed /\ outgoingMessageQueue = <<>>)]_vars
  /\ [][\A w \in IncomingWorkers :
          (incomingPc[w] = "process" /\ incomingPc'[w] \notin {"process", "killed"})
            => incomingPc'[w] = "recv"]_vars
  /\ [][\A w \in SenderWorkers :
          /\ (senderPc[w] = "send" /\ senderPc'[w] \notin {"send", "killed"})
               => senderPc'[w] = (IF msgStatus'[senderMsg[w]] = MessageStatusFailed
                                   THEN "defer" ELSE "post")
          /\ (senderPc[w] = "post" /\ senderPc'[w] \notin {"post", "killed"})
               => senderPc'[w] = "defer"
          /\ (senderPc[w] = "defer" /\ senderPc'[w] \notin {"defer", "killed"})
               => senderPc'[w] = "recv"]_vars

\* C22 witness: an ingestion worker has logged the error of one envelope and
\* is running the pipeline on the next one, with both pools complete.
C22_Witness ==
  /\ ~ctxDone /\ ~closed
  /\ \E w \in IncomingWorkers : incomingLogged[w] /\ incomingPc[w] = "process"
  /\ LiveIncoming = IncomingWorkers
  /\ LiveSenders = SenderWorkers

\* No worker holds an item: every envelope received has been run through
\* processIncomingMessage to its return, and every execution of
\* sendOutgoingMessage has reached its deferred Delete.
NothingInHand ==
  /\ \A w \in IncomingWorkers : incomingMsg[w] = NoEnvelopeID
  /\ \A w \in SenderWorkers : senderMsg[w] = NoMessage
  /\ \A e \in 1..dequeued : processedCount[e] = 1

C24_ShutdownDropsUntaken ==
  [][closed => /\ dequeued' = dequeued
               /\ incomingMessageQueue' = incomingMessageQueue
               /\ outgoingMessageQueue' = outgoingMessageQueue]_vars

\* C24 (amended): after Close has closed the queues nothing is added to them.
\* A buffered item is either received by a worker that has not yet returned,
\* and then processed to the end before Close returns, or it stays in the
\* buffer and is never processed; items stay behind only when the context
\* was cancelled, otherwise the workers drain both queues before they
\* return. After Close has returned no item is taken or processed.
C24_ShutdownDrainsOrDrops ==
  /\ [][closed => /\ Len(incomingMessageQueue') <= Len(incomingMessageQueue)
                  /\ Len(outgoingMessageQueue') <= Len(outgoingMessageQueue)]_vars
  /\ [](enqAccepted = dequeued + Len(incomingMessageQueue))
  /\ [](closePc = "done" => NothingInHand)
  /\ []((closePc = "done" /\ ~ctxDone)
          => /\ incomingMessageQueue = <<>>
             /\ outgoingMessageQueue = <<>>)
  /\ [][closePc = "done"
          => UNCHANGED <<incomingMessageQueue, outgoingMessageQueue, dequeued,
                         processedCount, senderMsg, adapterSends>>]_vars

\* C24 witness: Close has returned; one envelope was taken and processed,
\* another is still in the buffer.
C24_Witness ==
  /\ closePc = "done"
  /\ dequeued >= 1
  /\ NothingInHand
  /\ incomingMessageQueue # <<>>

\* C33 (the claim as stated): no send on a closed queue. The scanner never
\* executes its push to the dispatch queue once Close has closed it.
C33_NoSendOnClosedQueue ==
  [][(runPc = "push" /\ runPc' # "push") => ~closed]_vars

(***************************************************************************)
(* Cancellation at any time: Run takes the context as an argument, and     *)
(* nothing in the Manager ties its cancellation to Close. The goroutines   *)
(* are scheduled fairly: a goroutine that can take a step takes one, and a *)
(* select that is offered ctx.Done() again and again takes it.             *)
(***************************************************************************)
NextCancel ==
  \/ NextShutdown
  \/ CancelCtx

FairScanner ==
  /\ WF_vars(RunTick \/ RunQuery(TRUE) \/ RunStore \/ RunPush \/ RunPushClosed)
  /\ SF_vars(RunExit)

FairWorkers ==
  /\ \A w \in SenderWorkers :
       /\ WF_vars(\/ MessageSenderWorkerRecv(w)
                  \/ \E o \in {"sendErr", "ok"} : sendOutgoingMessageSend(w, o, TRUE)
                  \/ sendOutgoingMessagePost(w, "ok")
                  \/ sendOutgoingMessageDefer(w))
       /\ SF_vars(MessageSenderWorkerExit(w))
  /\ \A w \in IncomingWorkers :
       /\ WF_vars(IncomingMessageWorkerRecv(w) \/ \E ok \in BOOLEAN : IncomingMessageWorkerProcess(w, ok))
       /\ SF_vars(IncomingMessageWorkerExit(w))

SpecCancelFair == Init /\ [][NextCancel]_vars /\ FairScanner /\ FairWorkers

\* C25: cancellation reaches the scanner. After the context is cancelled,
\* every ingestion worker, every dispatch worker and Run eventually return.
C25_CancellationReachesScanner ==
  ctxDone ~> (runPc = "exited" /\ LiveIncoming = {} /\ LiveSenders = {})

(***************************************************************************)
(* The running engine, without shutdown: replies are queued, the scanner   *)
(* ticks, the dispatch workers send. The pending query and the status      *)
(* writes may be rejected by the store; every call returns. The goroutines *)
(* are scheduled fairly, and a query that is issued again and again        *)
(* succeeds at some tick.                                                  *)
(***************************************************************************)
NextPending ==
  \/ \E m \in Messages, k \in {"agent", "system"} : QueueReply(m, k)
  \/ RunTick
  \/ \E ok \in BOOLEAN : RunQuery(ok)
  \/ RunStore
  \/ RunPush
  \/ \E w \in SenderWorkers : MessageSenderWorkerRecv(w)
  \/ \E w \in SenderWorkers, o \in {"sendErr", "ok"}, ok \in WriteOutcomes :
       sendOutgoingMessageSend(w, o, ok)
  \/ \E w \in SenderWorkers : sendOutgoingMessagePost(w, "ok")
  \/ \E w \in SenderWorkers : sendOutgoingMessageDefer(w)

FairPending ==
  /\ WF_vars(RunTick \/ RunStore \/ RunPush)
  /\ SF_vars(RunQuery(TRUE))
  /\ \A w \in SenderWorkers :
       WF_vars(\/ MessageSenderWorkerRecv(w)
               \/ \E o \in {"sendErr", "ok"}, ok \in WriteOutcomes : sendOutgoingMessageSend(w, o, ok)
               \/ sendOutgoingMessagePost(w, "ok")
               \/ sendOutgoingMessageDefer(w))

SpecPendingFair == Init /\ [][NextPending]_vars /\ FairPending

\* Message m is a non-private outgoing message in status Pending.
PendingWork(m) == msgStatus[m] = MessageStatusPending /\ ~msgPrivate[m]

NextStopping ==
  \/ NextPending
  \/ CancelCtx
  \/ RunExit
  \/ \E w \in SenderWorkers : MessageSenderWorkerExit(w)

FairStopping ==
  /\ FairPending
  /\ SF_vars(RunExit)
  /\ \A w \in SenderWorkers : SF_vars(MessageSenderWorkerExit(w))

SpecStoppingFair == Init /\ [][NextStopping]_vars /\ FairStopping

\* C36 (the claim as stated): no stale tracker entries. Every message id in
\* the in-flight tracker is eventually out of it.
C36_TrackerEntriesRemoved ==
  \A m \in Messages :
    (m \in outgoingProcessingMessages) ~> (m \notin outgoingProcessingMessages)

(***************************************************************************)
(* UpdateConversationStatus: calls on one conversation, one at a time,     *)
(* beside the automatic reopen of the ingestion path.                      *)
(***************************************************************************)
\* The statuses asked for, and the snooze durations given.
TargetStatuses == {"Open", "Snoozed", "Resolved", "Closed"}
SnoozeDurations == {"", "abc", "1h"}

\* time.ParseDuration: the strings it accepts, and their value in hours.
ParsesAsDuration(dur) == dur \in {"1h", "2h"}
ParseDuration(dur) == IF dur = "1h" THEN 1 ELSE 2

\* The call returns result.
ucsReturn(result) ==
  /\ ucsResult' = result
  /\ ucsPc' = "idle"

\* UpdateConversationStatus(uuid, statusID, status, snoozeDur, actor) is called.
UpdateConversationStatusCall(status, dur) ==
  /\ ucsPc = "idle"
  /\ ucsCalls < MaxStatusCalls
  /\ ucsCalls' = ucsCalls + 1
  /\ clock' = clock + 1
  /\ ucsStatus' = status
  /\ ucsSnoozeDur' = dur
  /\ ucsSnoozeUntil' = 0
  /\ ucsBefore' = [status |-> "None", resolvedAt |-> 0]
  /\ ucsFetched' = FALSE
  /\ ucsRan' = {}
  /\ ucsResult' = "none"
  /\ ucsPc' = "validate"
  /\ UNCHANGED <<statusStore, resolvedAtBroadcast>>
  /\ UNCHANGED <<outVars, queueVars, ingestVars, threadVars, insertVars, moreOpVars>>

\* Mutant of UpdateConversationStatusValidate: an empty duration is taken as
\* no duration and an unparsable one as zero.
UpdateConversationStatusValidate_NoCheck(ok) ==
  /\ ucsPc = "validate"
  /\ IF ~ok
     THEN /\ ucsReturn("inputError")
          /\ UNCHANGED ucsSnoozeUntil
     ELSE /\ ucsSnoozeUntil' = IF ucsStatus = "Snoozed" /\ ParsesAsDuration(ucsSnoozeDur)
                               THEN clock + ParseDuration(ucsSnoozeDur) ELSE 0
          /\ ucsPc' = "fetch"
          /\ UNCHANGED ucsResult
  /\ UNCHANGED <<statusStore, clock, ucsStatus, ucsSnoozeDur, ucsBefore, ucsFetched, ucsRan>>
  /\ UNCHANGED <<ucsCalls, resolvedAtBroadcast>>
  /\ UNCHANGED <<outVars, queueVars, ingestVars, threadVars, insertVars, moreOpVars>>

\* The status name is looked up (ok = FALSE: statusStore.Get failed); a
\* snooze needs a duration that is not empty and that time.ParseDuration
\* accepts, and snoozeUntil is time.Now().Add(duration).
UpdateConversationStatusValidate(ok) ==
  /\ ucsPc = "validate"
  /\ IF \/ ~ok
        \/ ucsStatus = "Snoozed" /\ ucsSnoozeDur = ""
        \/ ucsStatus = "Snoozed" /\ ~ParsesAsDuration(ucsSnoozeDur)
     THEN /\ ucsReturn("inputError")
          /\ UNCHANGED ucsSnoozeUntil
     ELSE /\ ucsSnoozeUntil' = IF ucsStatus = "Snoozed"
                               THEN clock + ParseDuration(ucsSnoozeDur) ELSE 0
          /\ ucsPc' = "fetch"
          /\ UNCHANGED ucsResult
  /\ UNCHANGED <<statusStore, clock, ucsStatus, ucsSnoozeDur, ucsBefore, ucsFetched, ucsRan>>
  /\ UNCHANGED <<ucsCalls, resolvedAtBroadcast>>
  /\ UNCHANGED <<outVars, queueVars, ingestVars, threadVars, insertVars, moreOpVars>>

\* Mutant of UpdateConversationStatusFetch: no early return.
UpdateConversationStatusFetch_NoEarlyReturn(ok) ==
  /\ ucsPc = "fetch"
  /\ IF ~ok
     THEN /\ ucsReturn("generalError")
          /\ UNCHANGED ucsBefore
     ELSE /\ ucsBefore' = [status |-> conversationStatus, resolvedAt |-> resolvedAt]
          /\ ucsPc' = "exec"
          /\ UNCHANGED ucsResult
  /\ UNCHANGED <<statusStore, clock, ucsStatus, ucsSnoozeDur, ucsSnoozeUntil, ucsFetched, ucsRan>>
  /\ UNCHANGED <<ucsCalls, resolvedAtBroadcast>>
  /\ UNCHANGED <<outVars, queueVars, ingestVars, threadVars, insertVars, moreOpVars>>

\* conversationBeforeChange is fetched; the call returns nil at once when the
\* status is the one asked for and is not Snoozed.
UpdateConversationStatusFetch(ok) ==
  /\ ucsPc = "fetch"
  /\ IF ~ok
     THEN /\ ucsReturn("generalError")
          /\ UNCHANGED ucsBefore
     ELSE /\ ucsBefore' = [status |-> conversationStatus, resolvedAt |-> resolvedAt]
          /\ IF conversationStatus = ucsStatus /\ ucsStatus # "Snoozed"
             THEN ucsReturn("nil")
             ELSE ucsPc' = "exec" /\ UNCHANGED ucsResult
  /\ UNCHANGED <<statusStore, clock, ucsStatus, ucsSnoozeDur, ucsSnoozeUntil, ucsFetched, ucsRan>>
  /\ UNCHANGED <<ucsCalls, resolvedAtBroadcast>>
  /\ UNCHANGED <<outVars, queueVars, ingestVars, threadVars, insertVars, moreOpVars>>

\* Mutant of ResolvedAtAfter: every transition into Resolved stamps
\* resolved_at.
ResolvedAtAfter_Restamp(status) ==
  IF status = "Resolved" THEN clock ELSE resolvedAt

\* The update-conversation-status statement: resolved_at after it has set
\* the given status. The column is stamped when the status is Resolved and
\* the column is not set.
ResolvedAtAfter(status) ==
  IF status = "Resolved" /\ resolvedAt = 0 THEN clock ELSE resolvedAt

\* c.q.UpdateConversationStatus.Exec(uuid, status, snoozeUntil): the statement
\* writes the status and the wake time it is given.
UpdateConversationStatusExec(ok) ==
  /\ ucsPc = "exec"
  /\ IF ~ok
     THEN /\ ucsReturn("generalError")
          /\ UNCHANGED <<statusStore, ucsRan>>
     ELSE /\ conversationStatus' = ucsStatus
          /\ snoozedUntil' = ucsSnoozeUntil
          /\ resolvedAt' = ResolvedAtAfter(ucsStatus)
          /\ ucsRan' = ucsRan \cup {"write"}
          /\ ucsPc' = "refetch"
          /\ UNCHANGED <<activities, ucsResult>>
  /\ UNCHANGED <<clock, ucsStatus, ucsSnoozeDur, ucsSnoozeUntil, ucsBefore, ucsFetched>>
  /\ UNCHANGED <<ucsCalls, resolvedAtBroadcast>>
  /\ UNCHANGED <<outVars, queueVars, ingestVars, threadVars, insertVars, moreOpVars>>

\* The conversation is fetched again (an error is logged and leaves the zero
\* value), and the status-changed webhook is triggered.
UpdateConversationStatusRefetch(ok) ==
  /\ ucsPc = "refetch"
  /\ ucsFetched' = ok
  /\ ucsRan' = ucsRan \cup {"webhook"}
  /\ ucsPc' = "record"
  /\ UNCHANGED <<statusStore, clock, ucsStatus, ucsSnoozeDur, ucsSnoozeUntil, ucsBefore>>
  /\ UNCHANGED <<ucsResult, ucsCalls, resolvedAtBroadcast>>
  /\ UNCHANGED <<outVars, queueVars, ingestVars, threadVars, insertVars, moreOpVars>>

\* RecordStatusChange (its error is returned); then the status broadcast,
\* the automation rules when the fetched conversation has an ID, and the
\* resolved_at broadcast when the status became Resolved.
UpdateConversationStatusRecord(ok) ==
  /\ ucsPc = "record"
  /\ IF ~ok
     THEN /\ ucsReturn("generalError")
          /\ UNCHANGED <<activities, ucsRan, resolvedAtBroadcast>>
     ELSE LET resolved == ucsBefore.status # "Resolved" /\ ucsStatus = "Resolved"
          IN /\ activities' = activities + 1
             /\ ucsRan' = ucsRan \cup {"activity", "broadcast"}
                                 \cup (IF ucsFetched THEN {"automation"} ELSE {})
                                 \cup (IF resolved THEN {"resolvedAtBroadcast"} ELSE {})
             /\ resolvedAtBroadcast' =
                  IF ~resolved THEN resolvedAtBroadcast
                  ELSE IF ucsBefore.resolvedAt = 0 THEN clock ELSE ucsBefore.resolvedAt
             /\ ucsReturn("nil")
  /\ UNCHANGED <<conversationStatus, snoozedUntil, resolvedAt>>
  /\ UNCHANGED <<clock, ucsStatus, ucsSnoozeDur, ucsSnoozeUntil, ucsBefore, ucsFetched, ucsCalls>>
  /\ UNCHANGED <<outVars, queueVars, ingestVars, threadVars, insertVars, moreOpVars>>

\* An inbound message arrives on the conversation: processIncomingMessage
\* reopens it (ReOpenConversation records the change when a row was changed).
AutomaticReOpen ==
  /\ ReOpenConversation(conversationStatus) # conversationStatus
  /\ conversationStatus' = ReOpenConversation(conversationStatus)
  /\ activities' = activities + 1
  /\ UNCHANGED <<snoozedUntil, resolvedAt>>
  /\ UNCHANGED <<clock, ucsPc, ucsStatus, ucsSnoozeDur, ucsSnoozeUntil, ucsBefore>>
  /\ UNCHANGED <<ucsFetched, ucsRan, ucsResult, ucsCalls, resolvedAtBroadcast>>
  /\ UNCHANGED <<outVars, queueVars, ingestVars, threadVars, insertVars, moreOpVars>>

NextStatus ==
  \/ \E status \in TargetStatuses, dur \in SnoozeDurations : UpdateConversationStatusCall(status, dur)
  \/ \E ok \in BOOLEAN : UpdateConversationStatusValidate(ok)
  \/ \E ok \in BOOLEAN : UpdateConversationStatusFetch(ok)
  \/ \E ok \in BOOLEAN : UpdateConversationStatusExec(ok)
  \/ \E ok \in BOOLEAN : UpdateConversationStatusRefetch(ok)
  \/ \E ok \in BOOLEAN : UpdateConversationStatusRecord(ok)
  \/ AutomaticReOpen

SpecStatus == Init /\ [][NextStatus]_vars

(***************************************************************************)
(* Properties of UpdateConversationStatus (checked under SpecStatus).      *)
(***************************************************************************)
\* The last call has returned nil.
ucsSucceeded == ucsPc = "idle" /\ ucsResult = "nil"

\* The last call asked for the status the conversation had, not Snoozed.
ucsSameStatus == ucsBefore.status = ucsStatus /\ ucsStatus # "Snoozed"

\* The call takes the early return of a status that is not changed.
ucsNoOpReturn == ucsPc = "fetch" /\ ucsPc' = "idle" /\ ucsResult' = "nil"

\* C27 as stated: a call whose target is the current status (not Snoozed)
\* performs nothing, and a call that changes the status and returns success
\* has written the status, recorded an activity and invoked the automation
\* rules.
C27_StatusNoOp ==
  /\ (ucsSucceeded /\ ucsSameStatus) => ucsRan = {}
  /\ (ucsSucceeded /\ ~ucsSameStatus) => {"write", "activity", "automation"} \subseteq ucsRan

\* C27 (amended): a call whose target is the current status (not Snoozed)
\* returns success and changes nothing: no write, no activity, no webhook,
\* no broadcast, no automation evaluation. A call that changes the status and
\* returns success has written the status, triggered the webhook, recorded
\* exactly one activity and broadcast the status; the automation rules are
\* evaluated only when the conversation could be fetched again after the
\* write, a failure of that fetch being logged. When recording the activity
\* fails the call returns an error with the status written and the webhook
\* triggered, and without activity, broadcast or automation evaluation.
C27_StatusNoOpOrBestEffortChange ==
  /\ []((ucsSucceeded /\ ucsSameStatus) => ucsRan = {})
  /\ [][ucsNoOpReturn => (ucsRan' = {} /\ UNCHANGED <<statusStore, resolvedAtBroadcast>>)]_vars
  /\ []((ucsSucceeded /\ ~ucsSameStatus)
          => /\ {"write", "webhook", "activity", "broadcast"} \subseteq ucsRan
             /\ "automation" \in ucsRan <=> ucsFetched)
  /\ [][(ucsPc = "record" /\ ucsResult' = "nil") => activities' = activities + 1]_vars
  /\ [][(ucsPc # "record" /\ ucsPc' # ucsPc) => activities' = activities]_vars
  /\ []((ucsPc = "idle" /\ ucsResult = "generalError" /\ "write" \in ucsRan)
          => ucsRan = {"write", "webhook"})

\* C27 witness: Open was changed to Resolved with one activity, and the next
\* call, Resolved again, returned success having done nothing.
C27_Witness ==
  /\ ucsSucceeded
  /\ ucsCalls = 2
  /\ ucsStatus = "Resolved"
  /\ ucsBefore.status = "Resolved"
  /\ ucsRan = {}
  /\ activities = 1
  /\ conversationStatus = "Resolved"

\* C28: resolved-at is write-once. A conversation that is Resolved has
\* resolved_at set; the first transition into Resolved stamps it with the
\* time of the call; once set it is never changed, whatever status updates
\* and reopens follow; and a later transition into Resolved broadcasts the
\* stored value.
C28_ResolvedAtWriteOnce ==
  /\ [](conversationStatus = "Resolved" => resolvedAt # 0)
  /\ [][(conversationStatus # "Resolved" /\ conversationStatus' = "Resolved" /\ resolvedAt = 0)
          => resolvedAt' = clock]_vars
  /\ [][resolvedAt # 0 => resolvedAt' = resolvedAt]_vars
  /\ [][(ucsPc = "record" /\ "resolvedAtBroadcast" \in ucsRan' /\ ucsBefore.resolvedAt # 0)
          => resolvedAtBroadcast' = resolvedAt]_vars

\* C28 witness: Resolved, then Open, then Resolved again by the third call,
\* with resolved_at still the time of the first call.
C28_Witness ==
  /\ ucsSucceeded
  /\ ucsCalls = 3
  /\ conversationStatus = "Resolved"
  /\ ucsBefore.status = "Open"
  /\ ucsBefore.resolvedAt = resolvedAt
  /\ resolvedAt = 2
  /\ clock = 4
  /\ "resolvedAtBroadcast" \in ucsRan
  /\ resolvedAtBroadcast = resolvedAt

\* The call is a snooze whose duration is empty or is not a duration.
ucsBadSnooze ==
  /\ ucsStatus = "Snoozed"
  /\ ucsSnoozeDur = "" \/ ~ParsesAsDuration(ucsSnoozeDur)

\* C29: snooze needs a duration. A call to Snoozed with an empty or
\* unparsable duration returns an input error from its first step, leaving
\* status, wake time and activities as they are and having triggered nothing.
\* A call to Snoozed with a valid duration never takes the early return of
\* an unchanged status: unless a store call fails, which is returned as an
\* error, it writes status Snoozed and the wake time now + duration, also
\* when the conversation is Snoozed already.
C29_SnoozeNeedsDuration ==
  /\ [][(ucsPc = "validate" /\ ucsPc' # "validate" /\ ucsBadSnooze)
          => /\ ucsResult' = "inputError"
             /\ ucsPc' = "idle"
             /\ ucsRan' = {}
             /\ UNCHANGED <<statusStore, resolvedAtBroadcast>>]_vars
  /\ [](ucsResult = "inputError" => ucsRan = {})
  /\ []((ucsStatus = "Snoozed" /\ ucsPc \notin {"idle", "validate"}) => ~ucsBadSnooze)
  /\ []((ucsSucceeded /\ ucsStatus = "Snoozed")
          => {"write", "webhook", "activity", "broadcast"} \subseteq ucsRan)
  /\ [][(ucsPc = "exec" /\ ucsStatus = "Snoozed" /\ ucsPc' = "refetch")
          => /\ conversationStatus' = "Snoozed"
             /\ snoozedUntil' = clock + ParseDuration(ucsSnoozeDur)
             /\ snoozedUntil' > clock]_vars
  /\ [][(ucsPc = "exec" /\ ucsStatus = "Snoozed" /\ ucsPc' # "refetch" /\ ucsPc' # "exec")
          => ucsResult' = "generalError"]_vars

\* C29 witness: a conversation snoozed by the first call was snoozed again
\* by the second, which wrote a later wake time.
C29_Witness ==
  /\ ucsSucceeded
  /\ ucsCalls = 2
  /\ ucsStatus = "Snoozed"
  /\ ucsBefore.status = "Snoozed"
  /\ conversationStatus = "Snoozed"
  /\ "write" \in ucsRan
  /\ snoozedUntil = clock + 1
  /\ activities = 2

(***************************************************************************)
(* QueueReply with the inbox's auto-assign-on-reply setting: the agents    *)
(* reply on one conversation, each call statement by statement, so that    *)
(* the calls of two agents interleave. The setting is read from the inbox  *)
(* record by every call.                                                   *)
(***************************************************************************)
\* A call returns: the result is recorded and the agent is idle again.
qrReturn(a, result) ==
  /\ qrPc' = [qrPc EXCEPT ![a] = "idle"]
  /\ qrResult' = [qrResult EXCEPT ![a] = result]

\* An agent calls QueueReply with a recipient (an empty `to` returns an
\* error before anything is read).
QueueReplyCall(a) ==
  /\ qrPc[a] = "idle"
  /\ qrCalls < MaxReplies
  /\ qrCalls' = qrCalls + 1
  /\ qrPc' = [qrPc EXCEPT ![a] = "inbox"]
  /\ qrResult' = [qrResult EXCEPT ![a] = "none"]
  /\ qrLogged' = [qrLogged EXCEPT ![a] = FALSE]
  /\ UNCHANGED <<assignedUserID, qrAuto, qrQueued>>
  /\ UNCHANGED replyOthers

\* inboxStore.GetDBRecord and the parse of inbox.Config: the record is not
\* found (ok = FALSE, the error is returned), or the config is parsed and
\* AutoAssignOnReply is auto; a config that does not parse is logged and
\* leaves what was decoded, which is an auto of FALSE or TRUE as well.
QueueReplyGetDBRecord(a, ok, auto) ==
  /\ qrPc[a] = "inbox"
  /\ IF ok
     THEN /\ qrPc' = [qrPc EXCEPT ![a] = "insert"]
          /\ qrAuto' = [qrAuto EXCEPT ![a] = auto]
          /\ UNCHANGED qrResult
     ELSE /\ qrReturn(a, "error")
          /\ UNCHANGED qrAuto
  /\ UNCHANGED <<assignedUserID, qrQueued, qrLogged, qrCalls>>
  /\ UNCHANGED replyOthers

\* m.InsertMessage(&message): on an error the call returns it; otherwise the
\* Pending reply is in the store, and with the setting off the call returns
\* the message.
QueueReplyInsertMessage(a, ok) ==
  /\ qrPc[a] = "insert"
  /\ IF ~ok
     THEN /\ qrReturn(a, "error")
          /\ UNCHANGED qrQueued
     ELSE /\ qrQueued' = [qrQueued EXCEPT ![a] = @ + 1]
          /\ IF qrAuto[a]
             THEN /\ qrPc' = [qrPc EXCEPT ![a] = "get"]
                  /\ UNCHANGED qrResult
             ELSE qrReturn(a, "nil")
  /\ UNCHANGED <<assignedUserID, qrAuto, qrLogged, qrCalls>>
  /\ UNCHANGED replyOthers

\* conversation, err := m.GetConversation(0, conversationUUID, ""): the call
\* goes on to the assignment when err == nil and AssignedUserID.Int == 0,
\* and returns the message otherwise.
QueueReplyGetConversation(a, ok) ==
  /\ qrPc[a] = "get"
  /\ IF ok /\ assignedUserID = NoUser
     THEN /\ qrPc' = [qrPc EXCEPT ![a] = "assign"]
          /\ UNCHANGED qrResult
     ELSE qrReturn(a, "nil")
  /\ UNCHANGED <<assignedUserID, qrAuto, qrQueued, qrLogged, qrCalls>>
  /\ UNCHANGED replyOthers

\* m.UpdateAssignee(conversationUUID, senderID, AssigneeTypeUser): the
\* statement sets assigned_user_id to the sender; its error is logged. The
\* call returns the message either way.
QueueReplyUpdateAssignee(a, ok) ==
  /\ qrPc[a] = "assign"
  /\ assignedUserID' = IF ok THEN a ELSE assignedUserID
  /\ qrLogged' = [qrLogged EXCEPT ![a] = ~ok]
  /\ qrReturn(a, "nil")
  /\ UNCHANGED <<qrAuto, qrQueued, qrCalls>>
  /\ UNCHANGED replyOthers

NextReply ==
  \/ \E a \in Agents : QueueReplyCall(a)
  \/ \E a \in Agents, ok, auto \in BOOLEAN : QueueReplyGetDBRecord(a, ok, auto)
  \/ \E a \in Agents, ok \in BOOLEAN : QueueReplyInsertMessage(a, ok)
  \/ \E a \in Agents, ok \in BOOLEAN : QueueReplyGetConversation(a, ok)
  \/ \E a \in Agents, ok \in BOOLEAN : QueueReplyUpdateAssignee(a, ok)

SpecReply == Init /\ [][NextReply]_vars

\* C31 (the claim as stated, its second part): a conversation that has an
\* assigned user keeps it through every step of every call of QueueReply.
C31_AssignedUserKept ==
  [][assignedUserID # NoUser => assignedUserID' = assignedUserID]_vars

(***************************************************************************)
(* RunTrashManager: every tick reads the settings and runs one cycle of    *)
(* three statements. An administrator changes the settings at any time.    *)
(***************************************************************************)
\* The step after st in a cycle, and "wait" after the last one.
TrashStepAfter(st) ==
  LET i == CHOOSE j \in 1..Len(TrashSteps) : TrashSteps[j] = st
  IN IF i < Len(TrashSteps) THEN TrashSteps[i + 1] ELSE "wait"

\* Admin > Trash & Cleanup: a retention period is changed.
SetTrashSettings(st, days) ==
  /\ trashSettings[st] # days
  /\ trashSettings' = [trashSettings EXCEPT ![st] = days]
  /\ UNCHANGED <<trPc, trDays, trRan, trFailed, trApplied, trCycles, trCtxDone>>
  /\ UNCHANGED trashOthers

\* case <-ticker.C: getSettings() is called and runTrashCycle entered.
RunTrashManagerTick ==
  /\ trPc = "wait"
  /\ trCycles < MaxCycles
  /\ trCycles' = trCycles + 1
  /\ trDays' = trashSettings
  /\ trPc' = TrashSteps[1]
  /\ trRan' = {}
  /\ trFailed' = {}
  /\ UNCHANGED <<trashSettings, trApplied, trCtxDone>>
  /\ UNCHANGED trashOthers

\* Mutant of runTrashCycleStep: the cycle returns when a statement fails.
runTrashCycleStep_ReturnOnError(st, ok) ==
  /\ trPc = st
  /\ trCtxDone => ~ok
  /\ IF trDays[st] > 0
     THEN /\ trRan' = trRan \cup {st}
          /\ trFailed' = IF ok THEN trFailed ELSE trFailed \cup {st}
          /\ trApplied' = [trApplied EXCEPT ![st] = IF ok THEN @ + 1 ELSE @]
          /\ trPc' = IF ok THEN TrashStepAfter(st) ELSE "wait"
     ELSE /\ ok
          /\ trPc' = TrashStepAfter(st)
          /\ UNCHANGED <<trRan, trFailed, trApplied>>
  /\ UNCHANGED <<trashSettings, trDays, trCycles, trCtxDone>>
  /\ UNCHANGED trashOthers

\* One step of runTrashCycle: if days > 0 the statement is executed with the
\* context, and its error (always, once the context is cancelled) is logged;
\* then the next step follows.
runTrashCycleStep(st, ok) ==
  /\ trPc = st
  /\ trCtxDone => ~ok
  /\ IF trDays[st] > 0
     THEN /\ trRan' = trRan \cup {st}
          /\ trFailed' = IF ok THEN trFailed ELSE trFailed \cup {st}
          /\ trApplied' = [trApplied EXCEPT ![st] = IF ok THEN @ + 1 ELSE @]
     ELSE /\ ok
          /\ UNCHANGED <<trRan, trFailed, trApplied>>
  /\ trPc' = TrashStepAfter(st)
  /\ UNCHANGED <<trashSettings, trDays, trCycles, trCtxDone>>
  /\ UNCHANGED trashOthers

\* The context of RunTrashManager is cancelled.
TrashCancelCtx ==
  /\ ~trCtxDone
  /\ trCtxDone' = TRUE
  /\ UNCHANGED <<trashSettings, trPc, trDays, trRan, trFailed, trApplied, trCycles>>
  /\ UNCHANGED trashOthers

\* case <-ctx.Done(): return.
RunTrashManagerExit ==
  /\ trPc = "wait"
  /\ trCtxDone
  /\ trPc' = "exited"
  /\ UNCHANGED <<trashSettings, trDays, trRan, trFailed, trApplied, trCycles, trCtxDone>>
  /\ UNCHANGED trashOthers

NextTrash ==
  \/ \E st \in TrashStepNames, days \in RetentionDays : SetTrashSettings(st, days)
  \/ RunTrashManagerTick
  \/ \E st \in TrashStepNames, ok \in BOOLEAN : runTrashCycleStep(st, ok)
  \/ TrashCancelCtx
  \/ RunTrashManagerExit

InitTrashing ==
  /\ InitOut /\ InitQueue /\ InitIngest
  /\ InitThreadIdle /\ InitInsertIdle /\ InitStatus
  /\ InitReply /\ InitTrash /\ InitHooksIdle /\ InitInboxIdle

SpecTrash == InitTrashing /\ [][NextTrash]_vars

\* The steps of the cycle that come before st.
TrashStepsBefore(st) ==
  {TrashSteps[j] : j \in {k \in 1..Len(TrashSteps) :
                            \E i \in (k + 1)..Len(TrashSteps) : TrashSteps[i] = st}}

\* C32: trash cycle switches. A tick reads the settings of that moment and
\* the cycle uses them. A step whose setting is 0 or less executes nothing
\* and changes nothing; a step whose setting is positive executes its
\* statement whatever the earlier steps of the cycle did, so a finished
\* cycle has executed exactly the enabled statements.
C32_TrashCycleSwitches ==
  /\ [][(trPc = "wait" /\ trPc' \notin {"wait", "exited"})
          => /\ trDays' = trashSettings
             /\ trPc' = "resolved"]_vars
  /\ [][trPc \notin {"wait", "exited"} => trDays' = trDays]_vars
  /\ [][\A st \in TrashStepNames :
          (trPc = st /\ trPc' # st)
            => /\ trPc' = TrashStepAfter(st)
               /\ IF trDays[st] > 0
                  THEN /\ st \in trRan'
                       /\ trApplied'[st] \in {trApplied[st], trApplied[st] + 1}
                       /\ (trApplied'[st] = trApplied[st]) <=> (st \in trFailed')
                  ELSE UNCHANGED <<trRan, trFailed, trApplied>>
               /\ \A o \in TrashStepNames \ {st} : trApplied'[o] = trApplied[o]]_vars
  /\ [](\A st \in TrashStepNames :
          (trPc = st \/ (trPc \in {"wait", "exited"} /\ trCycles > 0))
            => \A o \in (IF trPc = st THEN TrashStepsBefore(st) ELSE TrashStepNames) :
                 o \in trRan <=> trDays[o] > 0)

\* C32 witness: in the second cycle, run after the purge was switched off
\* and the spam step switched on, the first statement failed, the second was
\* executed all the same and the third was not; the first cycle had purged.
C32_Witness ==
  /\ trCycles = 2
  /\ trPc = "wait"
  /\ trDays = [resolved |-> 30, spam |-> 30, purge |-> 0]
  /\ trRan = {"resolved", "spam"}
  /\ trFailed = {"resolved"}
  /\ trApplied = [resolved |-> 0, spam |-> 1, purge |-> 1]

(***************************************************************************)
(* processIncomingMessage from the insert of the message on, statement by  *)
(* statement, run by two ingestion workers. The messages that were bound   *)
(* to an existing conversation all belong to the same one; a message that  *)
(* created its conversation has one of its own.                            *)
(***************************************************************************)
\* What an execution can run after the insert.
CreationHooks == {"webhookCreated", "newConversationRules"}
\* ("reopenExec": the re-open statement was executed; "reopen": it changed
\* the row.)
ReplyHooks == {"reopenExec", "reopen", "activity", "waitingSince", "incomingRules", "slaEvent"}

\* The execution of w runs hook h.
hkRun(w, hooks) == hkRan' = [hkRan EXCEPT ![w] = @ \cup hooks]

\* The execution of w goes on at pc, or returns nil.
hkGoto(w, pc) ==
  /\ hkPc' = [hkPc EXCEPT ![w] = pc]
  /\ hkReturned' = [hkReturned EXCEPT ![w] = (pc = "idle")]

\* InsertMessage has returned nil for a message that created its conversation
\* (new) or was bound to the existing one.
processIncomingMessageInserted(w, new) ==
  /\ hkPc[w] = "idle"
  /\ hkCalls < MaxPosts
  /\ hkCalls' = hkCalls + 1
  /\ hkNew' = [hkNew EXCEPT ![w] = new]
  /\ hkRan' = [hkRan EXCEPT ![w] = {}]
  /\ hkGoto(w, IF new THEN "created" ELSE "user")
  /\ UNCHANGED <<hkBefore, hkStatus, hkActivities, hkWaitingSince, hkSLA, hkSLAEvents>>
  /\ UNCHANGED hookOthers

\* Mutant of processIncomingMessageCreated: no return after the creation
\* hooks.
processIncomingMessageCreated_FallThrough(w, fetched) ==
  /\ hkPc[w] = "created"
  /\ hkRun(w, IF fetched THEN CreationHooks ELSE {})
  /\ hkGoto(w, "user")
  /\ UNCHANGED <<hkBefore, hkStatus, hkActivities, hkWaitingSince, hkSLA, hkSLAEvents>>
  /\ UNCHANGED <<hkNew, hkCalls>>
  /\ UNCHANGED hookOthers

\* if isNewConversation: the conversation is fetched and, if that worked, the
\* conversation-created webhook and the new-conversation rules are
\* triggered; nil is returned.
processIncomingMessageCreated(w, fetched) ==
  /\ hkPc[w] = "created"
  /\ hkRun(w, IF fetched THEN CreationHooks ELSE {})
  /\ hkGoto(w, "idle")
  /\ UNCHANGED <<hkBefore, hkStatus, hkActivities, hkWaitingSince, hkSLA, hkSLAEvents>>
  /\ UNCHANGED <<hkNew, hkCalls>>
  /\ UNCHANGED hookOthers

\* userStore.GetSystemUser: its error is logged and the reopening skipped.
processIncomingMessageSystemUser(w, ok) ==
  /\ hkPc[w] = "user"
  /\ hkGoto(w, IF ok THEN "reopen" ELSE "waiting")
  /\ UNCHANGED <<hkBefore, hkStatus, hkActivities, hkWaitingSince, hkSLA, hkSLAEvents>>
  /\ UNCHANGED <<hkNew, hkRan, hkCalls>>
  /\ UNCHANGED hookOthers

\* Mutant of ReOpenConversationExec: the activity is recorded whether or not
\* the statement changed a row.
ReOpenConversationExec_AlwaysRecord(w, ok) ==
  /\ hkPc[w] = "reopen"
  /\ IF ok
     THEN /\ hkStatus' = ReOpenConversation(hkStatus)
          /\ hkRun(w, {"reopenExec", "reopen"})
          /\ hkGoto(w, "record")
     ELSE /\ hkGoto(w, "waiting")
          /\ UNCHANGED <<hkStatus, hkRan>>
  /\ UNCHANGED <<hkBefore, hkActivities, hkWaitingSince, hkSLA, hkSLAEvents, hkNew, hkCalls>>
  /\ UNCHANGED hookOthers

\* ReOpenConversation, its statement: an error is returned, and logged by
\* the caller; otherwise the status is set and, when a row was affected,
\* the update is broadcast and the activity is recorded next.
ReOpenConversationExec(w, ok) ==
  /\ hkPc[w] = "reopen"
  /\ IF ok
     THEN /\ hkStatus' = ReOpenConversation(hkStatus)
          /\ IF hkStatus' # hkStatus
             THEN hkRun(w, {"reopenExec", "reopen"}) /\ hkGoto(w, "record")
             ELSE hkRun(w, {"reopenExec"}) /\ hkGoto(w, "waiting")
     ELSE /\ hkGoto(w, "waiting")
          /\ UNCHANGED <<hkStatus, hkRan>>
  /\ UNCHANGED <<hkBefore, hkActivities, hkWaitingSince, hkSLA, hkSLAEvents, hkNew, hkCalls>>
  /\ UNCHANGED hookOthers

\* ReOpenConversation, RecordStatusChange: its error is returned, and logged
\* by the caller.
ReOpenConversationRecord(w, ok) ==
  /\ hkPc[w] = "record"
  /\ IF ok
     THEN hkActivities' = hkActivities + 1 /\ hkRun(w, {"activity"})
     ELSE UNCHANGED <<hkActivities, hkRan>>
  /\ hkGoto(w, "waiting")
  /\ UNCHANGED <<hkBefore, hkStatus, hkWaitingSince, hkSLA, hkSLAEvents, hkNew, hkCalls>>
  /\ UNCHANGED hookOthers

\* m.UpdateConversationWaitingSince(uuid, &now): the error it returns is
\* dropped.
UpdateConversationWaitingSince(w, ok) ==
  /\ hkPc[w] = "waiting"
  /\ IF ok
     THEN hkWaitingSince' = TRUE /\ hkRun(w, {"waitingSince"})
     ELSE UNCHANGED <<hkWaitingSince, hkRan>>
  /\ hkGoto(w, "fetch")
  /\ UNCHANGED <<hkBefore, hkStatus, hkActivities, hkSLA, hkSLAEvents, hkNew, hkCalls>>
  /\ UNCHANGED hookOthers

\* The conversation is fetched: an error is logged and nil returned;
\* otherwise the incoming-message update rules are evaluated, and without
\* an SLA policy nil is returned.
processIncomingMessageRules(w, fetched) ==
  /\ hkPc[w] = "fetch"
  /\ IF fetched
     THEN hkRun(w, {"incomingRules"}) /\ hkGoto(w, IF hkSLA THEN "sla" ELSE "idle")
     ELSE hkGoto(w, "idle") /\ UNCHANGED hkRan
  /\ UNCHANGED <<hkBefore, hkStatus, hkActivities, hkWaitingSince, hkSLA, hkSLAEvents>>
  /\ UNCHANGED <<hkNew, hkCalls>>
  /\ UNCHANGED hookOthers

\* slaStore.CreateNextResponseSLAEvent: created (ok), or an error that is
\* logged unless it says an unmet event exists already; nil is returned.
CreateNextResponseSLAEvent(w, ok) ==
  /\ hkPc[w] = "sla"
  /\ IF ok
     THEN hkSLAEvents' = hkSLAEvents + 1 /\ hkRun(w, {"slaEvent"})
     ELSE UNCHANGED <<hkSLAEvents, hkRan>>
  /\ hkGoto(w, "idle")
  /\ UNCHANGED <<hkBefore, hkStatus, hkActivities, hkWaitingSince, hkSLA, hkNew, hkCalls>>
  /\ UNCHANGED hookOthers

NextHooks ==
  \/ \E w \in Processors, new \in BOOLEAN : processIncomingMessageInserted(w, new)
  \/ \E w \in Processors, fetched \in BOOLEAN : processIncomingMessageCreated(w, fetched)
  \/ \E w \in Processors, ok \in BOOLEAN : processIncomingMessageSystemUser(w, ok)
  \/ \E w \in Processors, ok \in BOOLEAN : ReOpenConversationExec(w, ok)
  \/ \E w \in Processors, ok \in BOOLEAN : ReOpenConversationRecord(w, ok)
  \/ \E w \in Processors, ok \in BOOLEAN : UpdateConversationWaitingSince(w, ok)
  \/ \E w \in Processors, fetched \in BOOLEAN : processIncomingMessageRules(w, fetched)
  \/ \E w \in Processors, ok \in BOOLEAN : CreateNextResponseSLAEvent(w, ok)

InitHooking ==
  /\ InitOut /\ InitQueue /\ InitIngest
  /\ InitThreadIdle /\ InitInsertIdle /\ InitStatus
  /\ InitReply /\ InitTrashIdle /\ InitHooks /\ InitInboxIdle

SpecHooks == InitHooking /\ [][NextHooks]_vars

\* The statuses the re-open statement changes.
Reopenable == {st \in ConvStatuses : ReOpenConversation(st) # st}

\* The execution of w returns in this step.
hkReturns(w) == hkPc[w] # "idle" /\ hkPc'[w] = "idle"

\* C38 (the claim as stated): single reopen record. When both workers have
\* ingested a message for the conversation, which was not Open, it is Open
\* and exactly one reopen activity is recorded.
C38_SingleReopenRecord ==
  ((\A w \in Processors : hkReturned[w] /\ ~hkNew[w]) /\ hkBefore # "Open")
    => (hkStatus = "Open" /\ hkActivities = 1)

\* C38 amended: however the executions interleave, the status changes at
\* most once, from Snoozed, Resolved or Closed to Open, and at most one
\* reopen activity is recorded, by the execution whose statement changed the
\* row. A statement that succeeds on such a conversation leaves it Open and
\* a record that succeeds leaves exactly one activity; a failure of either,
\* or of fetching the system user, is logged and may leave the status or
\* the activity missing. A Spam, Trashed or Open conversation stays as it is.
C38_AtMostOneReopenRecord ==
  /\ [](hkActivities <= 1)
  /\ [](Cardinality({w \in Processors : hkPc[w] = "record"}) <= 1)
  /\ [](hkActivities = 1 => hkStatus = "Open" /\ hkBefore \in Reopenable)
  /\ [](hkBefore \notin Reopenable => hkStatus = hkBefore /\ hkActivities = 0)
  /\ [][hkStatus' # hkStatus
          => /\ hkStatus = hkBefore /\ hkBefore \in Reopenable
             /\ hkStatus' = "Open"]_vars
  /\ [][hkActivities' # hkActivities
          => \E w \in Processors :
               hkPc[w] = "record" /\ "reopen" \in hkRan[w] /\ hkPc'[w] = "waiting"]_vars
  /\ [][\A w \in Processors :
          (hkPc[w] = "reopen" /\ hkPc'[w] = "record")
            => hkStatus \in Reopenable /\ hkStatus' = "Open"]_vars
  /\ [][\A w \in Processors :
          /\ (ReOpenConversationExec(w, TRUE) /\ hkStatus \in Reopenable)
               => hkStatus' = "Open" /\ hkPc'[w] = "record"
          /\ ReOpenConversationRecord(w, TRUE) => hkActivities' = 1]_vars

\* C38 witness: both workers have ingested a message for the Resolved
\* conversation; the statement of the first changed the row and its activity
\* is the only one, the statement of the second changed nothing.
C38_Witness ==
  /\ hkBefore = "Resolved"
  /\ \A w \in Processors : hkReturned[w] /\ ~hkNew[w] /\ "waitingSince" \in hkRan[w]
  /\ hkStatus = "Open"
  /\ hkActivities = 1
  /\ {"reopen", "activity"} \subseteq hkRan["w1"]
  /\ "reopenExec" \in hkRan["w2"] /\ "reopen" \notin hkRan["w2"]

\* C39 (the claim as stated): hook selection. An execution for a message
\* that created its conversation returns having triggered the creation
\* webhook and the new-conversation rules and nothing else; an execution
\* for a message bound to an existing conversation returns having set
\* waiting-since and run the incoming-message rules, and none of the two.
C39_HookSelection ==
  [][\A w \in Processors :
       hkReturns(w)
         => IF hkNew[w]
            THEN hkRan'[w] = CreationHooks
            ELSE /\ {"waitingSince", "incomingRules"} \subseteq hkRan'[w]
                 /\ hkRan'[w] \cap CreationHooks = {}
                 /\ hkWaitingSince']_vars

\* C39 amended: an execution for a message that created its conversation
\* runs nothing but the creation webhook and the new-conversation rules,
\* both when the conversation can be fetched and neither when it cannot,
\* and touches no status, activity, waiting-since or SLA event. An
\* execution for a message bound to an existing conversation runs neither
\* of the two; it attempts the reopening, the waiting-since update and the
\* fetch in turn, each of which may fail and be logged: waiting-since is
\* set when its update succeeds, the incoming-message rules run when the
\* fetch succeeds, and a next-response SLA event is created only then and
\* only for a conversation with an SLA policy.
C39_HookSelectionBestEffort ==
  /\ [](\A w \in Processors :
          IF hkNew[w] THEN hkRan[w] \in {{}, CreationHooks}
                      ELSE hkRan[w] \subseteq ReplyHooks)
  /\ [][\A w \in Processors :
          (hkNew[w] /\ hkPc[w] # "idle" /\ hkPc'[w] # hkPc[w])
            => /\ hkPc[w] = "created" /\ hkPc'[w] = "idle"
               /\ UNCHANGED <<hkStatus, hkActivities, hkWaitingSince, hkSLAEvents>>]_vars
  /\ [][\A w \in Processors :
          /\ processIncomingMessageCreated(w, TRUE) => hkRan'[w] = CreationHooks
          /\ UpdateConversationWaitingSince(w, TRUE)
               => hkWaitingSince' /\ "waitingSince" \in hkRan'[w]
          /\ processIncomingMessageRules(w, TRUE) => "incomingRules" \in hkRan'[w]
          /\ CreateNextResponseSLAEvent(w, TRUE) => "slaEvent" \in hkRan'[w]]_vars
  /\ [][\A w \in Processors :
          (hkReturns(w) /\ ~hkNew[w]) => hkPc[w] \in {"fetch", "sla"}]_vars
  /\ [](\A w \in Processors :
          /\ "waitingSince" \in hkRan[w] => hkWaitingSince
          /\ "slaEvent" \in hkRan[w] => hkSLA /\ "incomingRules" \in hkRan[w]
          /\ "activity" \in hkRan[w] => "reopen" \in hkRan[w]
          /\ "reopen" \in hkRan[w] => "reopenExec" \in hkRan[w])

\* C39 witness: one worker has returned from a message that created its
\* conversation, with the two creation hooks; the other from a message bound
\* to the Closed conversation, which has an SLA policy, with every reply
\* hook run.
C39_Witness ==
  /\ hkBefore = "Closed" /\ hkSLA
  /\ hkReturned["w1"] /\ hkNew["w1"] /\ hkRan["w1"] = CreationHooks
  /\ hkReturned["w2"] /\ ~hkNew["w2"] /\ hkRan["w2"] = ReplyHooks
  /\ hkStatus = "Open" /\ hkActivities = 1
  /\ hkWaitingSince /\ hkSLAEvents = 1

(***************************************************************************)
(* The inbox manager (inbox.Manager): Start, Reload and Close, and the     *)
(* receiver goroutines they start. Start, Reload and Close hold m.mu, so   *)
(* each of Start and Reload is one step; Close keeps the mutex while it    *)
(* waits on m.wg. Start is called once, before any Reload.                 *)
(***************************************************************************)

\* The goroutines whose cancel func is in m.receivers.
Registered == {r \in Routines : imReceivers[r[2]] = r[1]}

\* Start: for each inbox a receiverCtx, its cancel registered, wg.Add(1),
\* and the goroutine that defers wg.Done and calls Receive.
ManagerStart ==
  /\ ~imStarted
  /\ imClosePc = "idle"
  /\ imStarted' = TRUE
  /\ imReceivers' = [i \in InboxIDs |-> IF i \in imInboxes THEN 0 ELSE imReceivers[i]]
  /\ imRoutine' = [r \in Routines |->
                     IF r[1] = 0 /\ r[2] \in imInboxes THEN "running" ELSE imRoutine[r]]
  /\ imWg' = imWg + Cardinality(imInboxes)
  /\ UNCHANGED <<imInboxes, imCancelled, imReloads, imClosePc>>
  /\ UNCHANGED inboxOthers

\* Reload: cancels every registered receiver, empties m.receivers, closes
\* and forgets the inboxes, fetches the active inboxes (ok: getActive
\* succeeded), keeps those initFn could initialise (inited) and starts a
\* goroutine for each, without touching m.wg.
ManagerReload(ok, inited) ==
  /\ imStarted
  /\ imClosePc = "idle"
  /\ imReloads < MaxReloads
  /\ imReloads' = imReloads + 1
  /\ imCancelled' = imCancelled \cup Registered
  /\ LET ids == IF ok THEN inited ELSE {}
         b == imReloads + 1
     IN  /\ imInboxes' = ids
         /\ imReceivers' = [i \in InboxIDs |-> IF i \in ids THEN b ELSE NoBatch]
         /\ imRoutine' = [r \in Routines |->
                            IF r[1] = b /\ r[2] \in ids THEN "running" ELSE imRoutine[r]]
  /\ UNCHANGED <<imWg, imStarted, imClosePc>>
  /\ UNCHANGED inboxOthers

\* Close up to m.wg.Wait(): cancels every registered receiver and closes
\* the inboxes.
ManagerClose ==
  /\ imStarted
  /\ imClosePc = "idle"
  /\ imCancelled' = imCancelled \cup Registered
  /\ imClosePc' = "waiting"
  /\ UNCHANGED <<imInboxes, imReceivers, imRoutine, imWg, imStarted, imReloads>>
  /\ UNCHANGED inboxOthers

\* m.wg.Wait() returns when the counter is zero, and Close with it.
ManagerCloseReturn ==
  /\ imClosePc = "waiting"
  /\ imWg = 0
  /\ imClosePc' = "returned"
  /\ UNCHANGED <<imInboxes, imReceivers, imRoutine, imCancelled, imWg, imStarted,
                 imReloads>>
  /\ UNCHANGED inboxOthers

\* A receiver goroutine returns: inbox.Receive returned because its context
\* is cancelled, or with an error of its own (err). Only the goroutines of
\* Start defer m.wg.Done().
ReceiveReturn(r, err) ==
  /\ imRoutine[r] = "running"
  /\ r \in imCancelled \/ err
  /\ imRoutine' = [imRoutine EXCEPT ![r] = "returned"]
  /\ imWg' = IF r[1] = 0 THEN imWg - 1 ELSE imWg
  /\ UNCHANGED <<imInboxes, imReceivers, imCancelled, imStarted, imReloads, imClosePc>>
  /\ UNCHANGED inboxOthers

NextInbox ==
  \/ ManagerStart
  \/ \E ok \in BOOLEAN, inited \in SUBSET InboxIDs : ManagerReload(ok, inited)
  \/ ManagerClose
  \/ ManagerCloseReturn
  \/ \E r \in Routines, err \in BOOLEAN : ReceiveReturn(r, err)

InitInboxing ==
  /\ InitOut /\ InitQueue /\ InitIngest
  /\ InitThreadIdle /\ InitInsertIdle /\ InitStatus
  /\ InitReply /\ InitTrashIdle /\ InitHooksIdle /\ InitInbox

SpecInbox == InitInboxing /\ [][NextInbox]_vars

\* The receiver goroutines that were started and have not returned.
RunningReceivers == {r \in Routines : imRoutine[r] = "running"}

\* Close cancels every registered receiver.
CloseCancelsReceivers ==
  [][imClosePc = "idle" /\ imClosePc' = "waiting"
       => Registered \subseteq imCancelled']_vars

\* Once Close has returned no started receiver goroutine is running.
CloseWaitsForReceivers == [](imClosePc = "returned" => RunningReceivers = {})

\* Per inbox id at most one receiver is running with a live context, and
\* it is the registered one.
OneActiveReceiverPerInbox ==
  [](\A r \in RunningReceivers : r \notin imCancelled => r \in Registered)

\* C40: inbox manager shutdown waits for every receiver. Close cancels
\* every registered receiver and returns only after every receiver
\* goroutine that was started, by Start or by a later Reload, has returned;
\* and after Reload at most one receiver is active per inbox id, all earlier
\* ones having been cancelled.
C40_CloseWaitsForEveryReceiver ==
  /\ CloseCancelsReceivers
  /\ CloseWaitsForReceivers
  /\ OneActiveReceiverPerInbox

====
